---- MODULE Spec2Model ----
(***************************************************************************)
(* Model of the session-based video generation pipeline:                   *)
(*   ads_generation.py  generate_video_async, download_video_from_s3,      *)
(*                      generate_ads                                       *)
(* The remote generation API and the object storage are the environment:   *)
(* their responses are inputs drawn from small sets.                       *)
(*                                                                         *)
(* Two specifications are given:                                           *)
(*   SpecAsync  one call of generate_video_async, one poll per step        *)
(*   Spec       sequential generate_ads sessions in one folder, one step   *)
(*              per call / file write of generate_ads                      *)
(***************************************************************************)
EXTENDS Integers, Sequences, FiniteSets, TLC

\* ------------------------------------------------------------------ bounds
\* number of generate_ads sessions run one after the other in the folder
MaxSessions == 2
\* number of jobs / retrievals over a whole run that do not go well
MaxFaults == 2
\* number of jobs submitted over a whole run
MaxJobs == 6

\* ------------------------------------------------------- program constants
\* max_attempts = 60
max_attempts == 60
\* time.sleep(10)
poll_delay == 10

\* ------------------------------------------------------- python call outcomes
Return(v) == [tag |-> "return", value |-> v]
Raise(e) == [tag |-> "raise", exc |-> e]
Continue == [tag |-> "continue"]

\* an exception object: its class and its str()
Exc(cls, text) == [cls |-> cls, text |-> text]
KeyError(key) == Exc("KeyError", key)
NoExc == Exc("", "")

\* classes derived from Exception (what `except Exception` catches)
ExceptionClasses == {"ClientError", "KeyError", "AttributeError", "EndpointConnectionError",
                     "ValueError"}

\* ------------------------------------------------------- remote generation API
\* A response of start_async_invoke: the call raises, or returns a dict that
\* holds the key invocationArn (<<arn>>) or lacks it (<<>>).
StartOk == [raises |-> FALSE, exc |-> NoExc, invocationArn |-> <<"arn">>]
StartNoArn == [raises |-> FALSE, exc |-> NoExc, invocationArn |-> <<>>]
StartRaises == [raises |-> TRUE, exc |-> Exc("ClientError", "ThrottlingException"),
                invocationArn |-> <<>>]
StartResponses == {StartOk, StartNoArn, StartRaises}

\* An s3 URI as tokens: the scheme "s3://", the separator "/", and names.
GoodLocation == <<"s3://", "bucket", "/", "luma-videos", "/", "job", "/">>
BucketOnlyLocation == <<"s3://", "bucket">>
NoLocation == <<>>
Locations == {GoodLocation, BucketOnlyLocation}

\* failureReason texts, one per diagnostic category and one in none
FailureReasons == {"Throttling: rate exceeded", "Access denied", "Quota reached",
                   "Internal error"}

\* A response of get_async_invoke: the call raises, or returns a dict with
\* optional keys status, outputDataConfig...s3Uri and failureReason
\* (<<>> = key absent, <<v>> = key present with value v).
PollResp(status, s3Uri, failureReason) ==
    [raises |-> FALSE, exc |-> NoExc, status |-> status, s3Uri |-> s3Uri,
     failureReason |-> failureReason]
PollRaises == [raises |-> TRUE, exc |-> Exc("EndpointConnectionError", "connection lost"),
               status |-> <<>>, s3Uri |-> <<>>, failureReason |-> <<>>]
InProgress == PollResp(<<"InProgress">>, <<>>, <<>>)
PollResponses ==
    {PollRaises, InProgress,
     PollResp(<<>>, <<>>, <<>>),
     PollResp(<<"Submitted">>, <<>>, <<>>),
     PollResp(<<"Completed">>, <<>>, <<>>),
     PollResp(<<"Failed">>, <<>>, <<>>)}
    \cup {PollResp(<<"Completed">>, <<l>>, <<>>) : l \in Locations}
    \cup {PollResp(<<"Failed">>, <<>>, <<r>>) : r \in FailureReasons}

\* ------------------------------------------------------- generate_video_async
\* The dict generate_video_async returns. error = <<>> and s3_location =
\* NoLocation stand for an absent key.
AsyncResult(success, error, s3_location, generation_time, video_index, full_error_response) ==
    [success |-> success, error |-> error, s3_location |-> s3_location,
     generation_time |-> generation_time, video_index |-> video_index,
     full_error_response |-> full_error_response]

NoResult == AsyncResult(FALSE, <<>>, NoLocation, 0, 0, FALSE)

CompletedResult(resp, attempt, video_index) ==
    AsyncResult(TRUE, <<>>, resp.s3Uri[1], attempt * poll_delay, video_index, FALSE)

\* the tip printed for a failure reason: the if / elif chain over
\* error_msg.lower(), <<>> when no pattern is found in it
Tip(error_msg) ==
    CASE error_msg = "Throttling: rate exceeded" -> <<"rate limiting">>  \* 'throttling', 'rate'
      [] error_msg = "Access denied" -> <<"permissions">>                \* 'access'
      [] error_msg = "Quota reached" -> <<"quota">>                      \* 'quota'
      [] OTHER -> <<>>

FailedResultByTip(resp, video_index) ==
    LET error_msg == IF resp.failureReason = <<>> THEN "No failureReason provided"
                     ELSE resp.failureReason[1]
    IN IF Tip(error_msg) = <<"rate limiting">>
       THEN AsyncResult(FALSE, <<"Generation failed: ", error_msg>>, NoLocation, 0, video_index,
                        FALSE)
       ELSE AsyncResult(FALSE, <<"Generation failed: ", error_msg>>, NoLocation, 0, video_index,
                        TRUE)
FailedResult(resp, video_index) ==
    LET error_msg == IF resp.failureReason = <<>> THEN "No failureReason provided"
                     ELSE resp.failureReason[1]
    IN AsyncResult(FALSE, <<"Generation failed: ", error_msg>>, NoLocation, 0, video_index, TRUE)

TimedOutResult(video_index) ==
    AsyncResult(FALSE, <<"Generation timed out after maximum attempts">>, NoLocation, 0,
                video_index, FALSE)

ExceptResult(exc, video_index) ==
    AsyncResult(FALSE, <<"Error generating video: ", exc.text>>, NoLocation, 0, video_index, FALSE)

\* `except Exception as e`
CatchesOnlyClientError(exc) == exc.cls = "ClientError"
Catches(exc) == exc.cls \in ExceptionClasses

\* response = start_async_invoke(...); invocation_arn = response['invocationArn']
start_async_invoke(resp) ==
    IF resp.raises THEN Raise(resp.exc)
    ELSE IF resp.invocationArn = <<>> THEN Raise(KeyError("'invocationArn'"))
    ELSE Return(resp.invocationArn[1])

\* the remote status ends the poll loop
IsTerminalStatus(resp) ==
    /\ ~resp.raises
    /\ resp.status # <<>>
    /\ resp.status[1] \in {"Completed", "Failed"}

\* one iteration of the poll loop, after the sleep: attempt counts from 1
HandlePoll(resp, attempt, video_index) ==
    IF resp.raises THEN Raise(resp.exc)
    ELSE IF resp.status = <<>> THEN Raise(KeyError("'status'"))
    ELSE IF resp.status[1] = "Completed"
         THEN IF resp.s3Uri = <<>> THEN Raise(KeyError("'outputDataConfig'"))
              ELSE Return(CompletedResult(resp, attempt, video_index))
    ELSE IF resp.status[1] = "Failed" THEN Return(FailedResult(resp, video_index))
    ELSE Continue

\* try ... except Exception: the outcome of the body seen by the caller
TryExcept(body, video_index) ==
    IF body.tag = "raise" /\ Catches(body.exc)
    THEN Return(ExceptResult(body.exc, video_index))
    ELSE body

\* The remote's behaviour over one job: the response to the submission, and
\* the responses to the polls: `waiting` before poll number `at`, `final`
\* from poll number `at` on.
Remote(start, waiting, at, final) ==
    [start |-> start, waiting |-> waiting, at |-> at, final |-> final]
PollResponseAt(remote, attempt) ==
    IF attempt < remote.at THEN remote.waiting ELSE remote.final

\* for attempt in range(max_attempts): `made` polls were made so far
MoreAttemptsOffByOne(made) == made <= max_attempts
MoreAttempts(made) == made < max_attempts

\* the poll loop from the point where `made` polls were made
RECURSIVE PollLoop(_, _, _)
PollLoop(remote, made, video_index) ==
    IF ~MoreAttempts(made) THEN Return(TimedOutResult(video_index))
    ELSE LET step == HandlePoll(PollResponseAt(remote, made + 1), made + 1, video_index)
         IN IF step.tag = "continue" THEN PollLoop(remote, made + 1, video_index)
            ELSE step

\* the whole call, as a function of the remote's behaviour
generate_video_async(remote, video_index) ==
    LET started == start_async_invoke(remote.start)
        body == IF started.tag = "raise" THEN started
                ELSE PollLoop(remote, 0, video_index)
    IN TryExcept(body, video_index)


\* ------------------------------------------------------- download_video_from_s3
\* s3_location.rstrip('/')
RECURSIVE RStripSlash(_)
RStripSlash(uri) ==
    IF uri # <<>> /\ uri[Len(uri)] = "/" THEN RStripSlash(SubSeq(uri, 1, Len(uri) - 1))
    ELSE uri

\* if s3_uri.startswith('s3://'): s3_uri = s3_uri[5:]
StripScheme(uri) == IF uri # <<>> /\ uri[1] = "s3://" THEN Tail(uri) ELSE uri

\* s3_uri.split('/', 1)
SplitFirstSlash(uri) ==
    LET slashes == {i \in 1..Len(uri) : uri[i] = "/"}
    IN IF slashes = {} THEN <<uri>>
       ELSE LET i == CHOOSE k \in slashes : \A j \in slashes : k <= j
            IN <<SubSeq(uri, 1, i - 1), SubSeq(uri, i + 1, Len(uri))>>

\* The storage's behaviour over one retrieval: list_objects_v2 raises or
\* returns a dict with or without Contents (a list of keys, each a name and
\* an extension); download_file raises or writes the local file.
Storage(listRaises, contents, downloadRaises) ==
    [listRaises |-> listRaises, contents |-> contents, downloadRaises |-> downloadRaises]
Mp4Key == <<"output", ".mp4">>
JsonKey == <<"manifest", ".json">>
StorageGood == Storage(FALSE, <<<<JsonKey, Mp4Key>>>>, FALSE)
StorageNoMp4 == Storage(FALSE, <<<<JsonKey>>>>, FALSE)
StorageNoContents == Storage(FALSE, <<>>, FALSE)
StorageListRaises == Storage(TRUE, <<>>, FALSE)
StorageDownloadRaises == Storage(FALSE, <<<<Mp4Key>>>>, TRUE)
StorageFaults == {StorageNoMp4, StorageNoContents, StorageListRaises, StorageDownloadRaises}
Storages == {StorageGood} \cup StorageFaults

\* obj['Key'].endswith('.mp4')
EndsWithMp4(key) == key[Len(key)] = ".mp4"

StorageError == Exc("ClientError", "storage error")

\* the body of the try block: its value is the returned boolean
DownloadBody(storage, s3_location) ==
    LET parts == SplitFirstSlash(StripScheme(RStripSlash(s3_location)))
    IN IF Len(parts) # 2 THEN Return(FALSE)
       ELSE IF storage.listRaises THEN Raise(StorageError)
       ELSE IF storage.contents = <<>> THEN Return(FALSE)
       ELSE IF \E i \in 1..Len(storage.contents[1]) : EndsWithMp4(storage.contents[1][i])
            THEN IF storage.downloadRaises THEN Raise(StorageError) ELSE Return(TRUE)
       ELSE Return(FALSE)

\* try ... except Exception: return False
download_video_from_s3_uncaught(storage, s3_location) == DownloadBody(storage, s3_location)
download_video_from_s3(storage, s3_location) ==
    LET body == DownloadBody(storage, s3_location)
    IN IF body.tag = "raise" /\ Catches(body.exc) THEN Return(FALSE) ELSE body


\* ------------------------------------------------------- generate_ads: data
\* A prompt type is a string, modelled as its characters.
HeroShowcase == <<"H", "e", "r", "o", " ", "S">>
LifestyleFocus == <<"L", "i", "f", "e">>
TechnicalDetail == <<"T", " ", "D">>

\* prompt_type.lower().replace(' ', '_')
LowerChar(c) ==
    CASE c = "H" -> "h" [] c = "S" -> "s" [] c = "L" -> "l" [] c = "T" -> "t"
      [] c = "D" -> "d" [] OTHER -> c
Slug(prompt_type) ==
    [i \in 1..Len(prompt_type) |->
        LET c == LowerChar(prompt_type[i]) IN IF c = " " THEN "_" ELSE c]

\* the decimal digits of n, most significant first
RECURSIVE Digits(_)
Digits(n) == IF n < 10 THEN <<n>> ELSE Append(Digits(n \div 10), n % 10)
\* f"{n:02d}"
Pad2(n) == IF n < 10 THEN <<0, n>> ELSE Digits(n)

\* f"video_{timestamp}_{img_idx:02d}_{prompt_idx:02d}_{slug}.mp4"
LocalFilenamePromptTwice(ts, img_idx, prompt_idx, prompt_type) ==
    [timestamp |-> ts, img |-> Pad2(prompt_idx), prompt |-> Pad2(prompt_idx),
     slug |-> Slug(prompt_type)]
LocalFilename(ts, img_idx, prompt_idx, prompt_type) ==
    [timestamp |-> ts, img |-> Pad2(img_idx), prompt |-> Pad2(prompt_idx),
     slug |-> Slug(prompt_type)]

\* per_image_analysis of product_analysis_prompts.json: for each image its
\* video_prompts, each prompt given by its prompt_type; an entry without
\* video_prompts (a failed analysis) is the empty list.
ThreePrompts == <<HeroShowcase, LifestyleFocus, TechnicalDetail>>
Analyses ==
    { <<ThreePrompts, ThreePrompts>>,
      <<<<HeroShowcase>>>>,
      <<<<>>, <<HeroShowcase, LifestyleFocus>>>> }

\* values of --num-videos (the default is 3)
NumVideosChoices == {1, 3}

\* session timestamps (YYYYMMDD_HHMMSS): the value of --timestamp, or the
\* reading of the clock when none is given; two sessions may get the same
Timestamps == {1, 2}

\* the remote behaviours a session's job meets
Completed(location) == PollResp(<<"Completed">>, <<location>>, <<>>)
RemoteGood == Remote(StartOk, InProgress, 1, Completed(GoodLocation))
RemoteFailed == Remote(StartOk, InProgress, 2, PollResp(<<"Failed">>, <<>>, <<"Internal error">>))
RemoteTimeout == Remote(StartOk, InProgress, max_attempts + 1, InProgress)
RemoteStartRaises == Remote(StartRaises, InProgress, 1, InProgress)
RemotePollRaises == Remote(StartOk, InProgress, 1, PollRaises)
RemoteBadLocation == Remote(StartOk, InProgress, 1, Completed(BucketOnlyLocation))
RemoteFaults == {RemoteFailed, RemoteTimeout, RemoteStartRaises, RemotePollRaises,
                 RemoteBadLocation}
Remotes == {RemoteGood} \cup RemoteFaults

VARIABLES
    \* the folder
    analysis,           \* per_image_analysis of product_analysis_prompts.json
    reportFiles,        \* generation_report_<ts>.json: <<>> or <<report>>
    sessionFiles,       \* session_videos_<ts>.json: <<>> or <<session_data>>
    latestFile,         \* latest_session_videos.json: <<>> or <<session_data>>
    videoFiles,         \* the video_*.mp4 files of generated_ads
    \* the running generate_ads call
    pc,
    timestamp,
    num_videos_per_image,
    img_idx,
    prompt_idx,
    total_video_index,
    result,
    successful_videos,
    failed_videos,
    report,
    session_videos,
    \* bookkeeping of the run
    sessions,           \* generate_ads calls started so far
    faults,             \* jobs and retrievals that did not go well so far
    submitted,          \* jobs submitted so far
    downloads,          \* the download_video_from_s3 calls of the session, in order:
                        \* <<video_index, value returned>>
    latestAtStart,      \* latest_session_videos.json as the session found it
    writes,             \* the files written by the session, in order
    \* one generate_video_async call, poll by poll
    apc,
    attempt,
    aresult,
    lastResp,
    raisedExc,
    \* the process running ads_generation.py
    exit_code,          \* <<>> while it runs, <<code>> once it has exited
    \* one call of merge_videos_with_transitions
    tcall,              \* its arguments and what ffprobe / ffmpeg answer
    tresult,            \* <<>> before the call, <<what it did and returned>> after
    \* the last run of merge_videos.py
    merge,
    \* one run of generate_video_ads.py
    plan,               \* the command line flags and the folder check
    ppc,
    launched,           \* the steps started so far, in order
    codes,              \* the exit codes of the steps that ended, in order
    coord_exit          \* <<>> while the coordinator runs, <<code>> after

folderVars == <<analysis, reportFiles, sessionFiles, latestFile, videoFiles>>
sessionVars == <<pc, timestamp, num_videos_per_image, img_idx, prompt_idx, total_video_index,
                 result, successful_videos, failed_videos, report, session_videos,
                 sessions, faults, submitted, downloads, latestAtStart, writes>>
asyncVars == <<apc, attempt, aresult, lastResp, raisedExc>>
transitionVars == <<tcall, tresult>>
pipelineVars == <<plan, ppc, launched, codes, coord_exit>>
\* what the steps of generate_ads leave alone
otherVars == <<asyncVars, transitionVars, pipelineVars>>
vars == <<folderVars, sessionVars, asyncVars, exit_code, transitionVars, merge, pipelineVars>>


\* ------------------------------------------------------- generate_ads: helpers
Min(a, b) == IF a <= b THEN a ELSE b

\* str(local_path) with local_path = generated_folder / local_filename
LocalPath(name) == <<"generated_ads", name>>
\* Path(video['local_filename']).name
PathName(path) == path[Len(path)]

\* the result dict after generate_ads has added its keys; local_filename is
\* <<>> while the key is absent
JobResult(r, prompt_type, image_index, prompt_index, ts) ==
    [success |-> r.success, error |-> r.error, s3_location |-> r.s3_location,
     generation_time |-> r.generation_time, video_index |-> r.video_index,
     full_error_response |-> r.full_error_response,
     prompt_type |-> prompt_type, image_index |-> image_index,
     prompt_index |-> prompt_index, timestamp |-> ts, local_filename |-> <<>>]
NoJobResult == JobResult(NoResult, <<>>, 0, 0, 0)

\* prompts_to_use = video_prompts[:num_videos_per_image]
PromptsToUseAll(i, n) == analysis[i]
PromptsToUse(i, n) == SubSeq(analysis[i], 1, Min(n, Len(analysis[i])))

\* the first image at or after position i that has prompts (`continue` skips
\* the others), with prompt ordinal 1; <<0, 0>> when the loops are over
FirstJobFrom(i, n) ==
    LET withPrompts == {k \in i..Len(analysis) : analysis[k] # <<>>}
    IN IF withPrompts = {} THEN <<0, 0>>
       ELSE <<CHOOSE k \in withPrompts : \A j \in withPrompts : k <= j, 1>>

\* the loop position after job (i, p)
NextJob(i, p, n) ==
    IF p < Len(PromptsToUse(i, n)) THEN <<i, p + 1>> ELSE FirstJobFrom(i + 1, n)

\* the number of jobs of a session: the passes of the inner loop
RECURSIVE JobCountFrom(_, _)
JobCountFrom(i, n) ==
    IF i > Len(analysis) THEN 0 ELSE Len(PromptsToUse(i, n)) + JobCountFrom(i + 1, n)
JobCount(n) == JobCountFrom(1, n)

\* the generation report dict
ReportCountingFailedOnly(ts, attempted, succeeded, failed) ==
    [timestamp |-> ts,
     total_images_processed |-> Len(analysis),
     videos_per_image |-> num_videos_per_image,
     total_attempted |-> attempted,
     successful_count |-> Len(succeeded),
     failed_count |-> Cardinality({i \in 1..Len(failed) :
                                     failed[i].error[1] = "Generation failed: "}),
     successful_videos |-> succeeded,
     failed_videos |-> failed]
Report(ts, attempted, succeeded, failed) ==
    [timestamp |-> ts,
     total_images_processed |-> Len(analysis),
     videos_per_image |-> num_videos_per_image,
     total_attempted |-> attempted,
     successful_count |-> Len(succeeded),
     failed_count |-> Len(failed),
     successful_videos |-> succeeded,
     failed_videos |-> failed]

\* session_videos: the names of the successful videos that have local_filename
RECURSIVE SessionVideosAll(_)
SessionVideosAll(videos) ==
    IF videos = <<>> THEN <<>>
    ELSE LET video == Head(videos)
         IN <<LocalFilename(video.timestamp, video.image_index, video.prompt_index,
                            video.prompt_type)>> \o SessionVideosAll(Tail(videos))
RECURSIVE SessionVideos(_)
SessionVideos(videos) ==
    IF videos = <<>> THEN <<>>
    ELSE LET video == Head(videos)
             rest == SessionVideos(Tail(videos))
         IN IF video.local_filename # <<>>
            THEN <<PathName(video.local_filename[1])>> \o rest
            ELSE rest

\* session_data
SessionData(ts, names) ==
    [timestamp |-> ts, session_videos |-> names, generation_report |-> ts]


NoReport ==
    [timestamp |-> 0, total_images_processed |-> 0, videos_per_image |-> 0,
     total_attempted |-> 0, successful_count |-> 0, failed_count |-> 0,
     successful_videos |-> <<>>, failed_videos |-> <<>>]

\* ------------------------------------------------------- ads_generation.py: main
\* the value of --s3-bucket: <<>> when the option is not given
NoBucket == <<>>
Bucket == <<"bucket">>
\* product_analysis_prompts.json as load_prompts finds it
PromptsFiles == {"missing", "no video prompts", "per image analysis"}

\* generate_ads up to the loops: the bucket check and load_prompts
Prologue(s3_bucket, prompts_file) ==
    IF s3_bucket = NoBucket THEN Return(<<>>)
    ELSE IF prompts_file = "missing"
         THEN Raise(Exc("ValueError", "Product analysis file not found"))
    ELSE IF prompts_file = "no video prompts"
         THEN Raise(Exc("ValueError", "No video prompts found in the analysis file"))
    ELSE Continue

\* the command lines on which generate_ads ends before the loops
BadConfigs == {c \in {NoBucket, Bucket} \X PromptsFiles : Prologue(c[1], c[2]) # Continue}

\* main: `out` is how the generate_ads call ended, Return(<<>>) for None and
\* Return(<<report>>) for the report; exit(1) in the except branch, and the
\* end of the script otherwise
MainExitOneOnFailedJobs(out) ==
    IF out.tag = "raise" THEN 1
    ELSE IF out.value # <<>> /\ out.value[1].failed_count > 0 THEN 1
    ELSE 0
MainExit(out) == IF out.tag = "raise" THEN 1 ELSE 0

\* no merge_videos.py run to speak of
NoMerge == <<>>

\* ------------------------------------------------------- generate_ads: steps
TransitionIdle ==
    /\ tcall = <<>>
    /\ tresult = <<>>

PipelineIdle ==
    /\ plan = <<>>
    /\ ppc = "idle"
    /\ launched = <<>>
    /\ codes = <<>>
    /\ coord_exit = <<>>

AsyncIdle ==
    /\ apc = "start"
    /\ attempt = 0
    /\ aresult = NoResult
    /\ lastResp = InProgress
    /\ raisedExc = NoExc

Init ==
    /\ analysis \in Analyses
    /\ reportFiles = [t \in Timestamps |-> <<>>]
    /\ sessionFiles = [t \in Timestamps |-> <<>>]
    /\ latestFile = <<>>
    /\ videoFiles = {}
    /\ pc = "idle"
    /\ timestamp = 0
    /\ num_videos_per_image \in NumVideosChoices
    /\ img_idx = 0
    /\ prompt_idx = 0
    /\ total_video_index = 0
    /\ result = NoJobResult
    /\ successful_videos = <<>>
    /\ failed_videos = <<>>
    /\ report = NoReport
    /\ session_videos = <<>>
    /\ sessions = 0
    /\ faults = 0
    /\ submitted = 0
    /\ downloads = <<>>
    /\ latestAtStart = <<>>
    /\ writes = <<>>
    /\ exit_code = <<>>
    /\ merge = NoMerge
    /\ AsyncIdle
    /\ TransitionIdle
    /\ PipelineIdle

\* if result['success']:
SucceededAlways(r) == TRUE
Succeeded(r) == r.success

\* if session_videos:
HasSessionVideosAlways(names) == TRUE
HasSessionVideos(names) == names # <<>>

\* the position of the loops: the next job, or the end of the loops
GoToLatestFirst(job) ==
    /\ img_idx' = job[1]
    /\ prompt_idx' = job[2]
    /\ pc' = IF job = <<0, 0>> THEN "latest" ELSE "generate"
GoTo(job) ==
    /\ img_idx' = job[1]
    /\ prompt_idx' = job[2]
    /\ pc' = IF job = <<0, 0>> THEN "report" ELSE "generate"

\* generate_ads is called (by a new process) with an s3 bucket, the run's
\* value of --num-videos and a session timestamp; it runs up to the loops
StartSession(ts) ==
    /\ pc \in {"idle", "done", "raised", "aborted"}
    /\ Prologue(Bucket, "per image analysis") = Continue
    /\ sessions < MaxSessions
    /\ submitted + JobCount(num_videos_per_image) <= MaxJobs
    /\ sessions' = sessions + 1
    /\ timestamp' = ts
    /\ successful_videos' = <<>>
    /\ failed_videos' = <<>>
    /\ total_video_index' = 0
    /\ result' = NoJobResult
    /\ report' = NoReport
    /\ session_videos' = <<>>
    /\ downloads' = <<>>
    /\ latestAtStart' = latestFile
    /\ writes' = <<>>
    /\ exit_code' = <<>>
    /\ merge' = NoMerge
    /\ GoTo(FirstJobFrom(1, num_videos_per_image))
    /\ UNCHANGED <<analysis, reportFiles, sessionFiles, latestFile, videoFiles, faults,
                   submitted, num_videos_per_image>>
    /\ UNCHANGED otherVars

\* ads_generation.py is run on a command line on which generate_ads ends
\* before the loops: it returns None or load_prompts raises, and main exits
AbortSession(s3_bucket, prompts_file) ==
    /\ pc \in {"idle", "done", "raised", "aborted"}
    /\ LET out == Prologue(s3_bucket, prompts_file)
       IN /\ out # Continue
          /\ exit_code' = <<MainExit(out)>>
    /\ pc' = "aborted"
    /\ timestamp' = 0
    /\ successful_videos' = <<>>
    /\ failed_videos' = <<>>
    /\ total_video_index' = 0
    /\ img_idx' = 0
    /\ prompt_idx' = 0
    /\ result' = NoJobResult
    /\ report' = NoReport
    /\ session_videos' = <<>>
    /\ downloads' = <<>>
    /\ latestAtStart' = latestFile
    /\ writes' = <<>>
    /\ merge' = NoMerge
    /\ UNCHANGED <<folderVars, num_videos_per_image, sessions, faults, submitted>>
    /\ UNCHANGED otherVars

\* where the inner loop goes once generate_video_async has returned: to
\* `if result['success']`
AfterGenerateNextJob == "generate"
AfterGenerate == "handle"

\* one pass of the inner loop up to the result dict: the call of
\* generate_video_async and the keys added to its result
Generate(remote) ==
    /\ pc = "generate"
    /\ remote \in RemoteFaults => faults < MaxFaults
    /\ faults' = IF remote \in RemoteFaults THEN faults + 1 ELSE faults
    /\ total_video_index' = total_video_index + 1
    /\ submitted' = submitted + 1
    /\ LET out == generate_video_async(remote, total_video_index + 1)
           prompt_type == PromptsToUse(img_idx, num_videos_per_image)[prompt_idx]
       IN IF out.tag = "return"
          THEN /\ result' = JobResult(out.value, prompt_type, img_idx, prompt_idx, timestamp)
               /\ pc' = AfterGenerate
               /\ exit_code' = exit_code
          ELSE /\ result' = result
               /\ pc' = "raised"
               /\ exit_code' = <<MainExit(out)>>
    /\ UNCHANGED <<folderVars, merge>>
    /\ UNCHANGED <<timestamp, num_videos_per_image, img_idx, prompt_idx, successful_videos,
                   failed_videos, report, session_videos, sessions, downloads, latestAtStart,
                   writes>>
    /\ UNCHANGED otherVars

\* if result['success']: the retrieval and the append to successful_videos
HandleSuccess(storage) ==
    /\ pc = "handle"
    /\ Succeeded(result)
    /\ storage \in StorageFaults => faults < MaxFaults
    /\ faults' = IF storage \in StorageFaults THEN faults + 1 ELSE faults
    /\ LET local_filename == LocalFilename(timestamp, img_idx, prompt_idx, result.prompt_type)
           got == download_video_from_s3(storage, result.s3_location)
           kept == IF got.tag = "return" /\ got.value
                   THEN [result EXCEPT !.local_filename = <<LocalPath(local_filename)>>]
                   ELSE result
       IN IF got.tag = "return"
          THEN /\ downloads' = Append(downloads, <<result.video_index, got.value>>)
               /\ result' = kept
               /\ videoFiles' = IF got.value THEN videoFiles \cup {local_filename}
                                ELSE videoFiles
               /\ successful_videos' = Append(successful_videos, kept)
               /\ GoTo(NextJob(img_idx, prompt_idx, num_videos_per_image))
               /\ exit_code' = exit_code
          ELSE /\ downloads' = Append(downloads, <<result.video_index, FALSE>>)
               /\ pc' = "raised"
               /\ exit_code' = <<MainExit(got)>>
               /\ UNCHANGED <<result, videoFiles, successful_videos, img_idx, prompt_idx>>
    /\ UNCHANGED <<analysis, reportFiles, sessionFiles, latestFile, merge>>
    /\ UNCHANGED <<timestamp, num_videos_per_image, total_video_index, failed_videos, report,
                   session_videos, sessions, submitted, latestAtStart, writes>>
    /\ UNCHANGED otherVars

\* else: failed_videos.append(result)
HandleFailure ==
    /\ pc = "handle"
    /\ ~Succeeded(result)
    /\ failed_videos' = Append(failed_videos, result)
    /\ GoTo(NextJob(img_idx, prompt_idx, num_videos_per_image))
    /\ UNCHANGED <<folderVars, exit_code, merge>>
    /\ UNCHANGED <<timestamp, num_videos_per_image, total_video_index, result,
                   successful_videos, report, session_videos, sessions, faults, submitted,
                   downloads, latestAtStart, writes>>
    /\ UNCHANGED otherVars

\* the report dict is built and generation_report_<timestamp>.json written
WriteReport ==
    /\ pc = "report"
    /\ report' = Report(timestamp, total_video_index, successful_videos, failed_videos)
    /\ reportFiles' = [reportFiles EXCEPT ![timestamp] = <<report'>>]
    /\ writes' = Append(writes, "report")
    /\ pc' = "manifest"
    /\ UNCHANGED <<analysis, sessionFiles, latestFile, videoFiles, exit_code, merge>>
    /\ UNCHANGED <<timestamp, num_videos_per_image, img_idx, prompt_idx, total_video_index,
                   result, successful_videos, failed_videos, session_videos, sessions, faults,
                   submitted, downloads, latestAtStart>>
    /\ UNCHANGED otherVars

\* session_videos is built; if it is not empty session_videos_<timestamp>.json
\* is written, else generate_ads returns the report
WriteSessionFile ==
    /\ pc = "manifest"
    /\ session_videos' = SessionVideos(successful_videos)
    /\ IF HasSessionVideos(session_videos')
       THEN /\ sessionFiles' = [sessionFiles EXCEPT
                                   ![timestamp] = <<SessionData(timestamp, session_videos')>>]
            /\ writes' = Append(writes, "session")
            /\ pc' = "latest"
            /\ exit_code' = exit_code
       ELSE /\ UNCHANGED <<sessionFiles, writes>>
            /\ pc' = "done"
            /\ exit_code' = <<MainExit(Return(<<report>>))>>
    /\ UNCHANGED <<analysis, reportFiles, latestFile, videoFiles, merge>>
    /\ UNCHANGED <<timestamp, num_videos_per_image, img_idx, prompt_idx, total_video_index,
                   result, successful_videos, failed_videos, report, sessions, faults,
                   submitted, downloads, latestAtStart>>
    /\ UNCHANGED otherVars

\* latest_session_videos.json is written with the same session_data, and
\* generate_ads returns the report
WriteLatest ==
    /\ pc = "latest"
    /\ latestFile' = <<SessionData(timestamp, session_videos)>>
    /\ writes' = Append(writes, "latest")
    /\ pc' = "done"
    /\ exit_code' = <<MainExit(Return(<<report>>))>>
    /\ UNCHANGED <<analysis, reportFiles, sessionFiles, videoFiles, merge>>
    /\ UNCHANGED <<timestamp, num_videos_per_image, img_idx, prompt_idx, total_video_index,
                   result, successful_videos, failed_videos, report, session_videos, sessions,
                   faults, submitted, downloads, latestAtStart>>
    /\ UNCHANGED otherVars

Next ==
    \/ \E ts \in Timestamps : StartSession(ts)
    \/ \E c \in BadConfigs : AbortSession(c[1], c[2])
    \/ \E remote \in Remotes : Generate(remote)
    \/ \E storage \in Storages : HandleSuccess(storage)
    \/ HandleFailure
    \/ WriteReport
    \/ WriteSessionFile
    \/ WriteLatest

Spec == Init /\ [][Next]_vars


\* ------------------------------------------------------- generate_video_async: steps
\* the session variables while only generate_video_async is looked at
SessionIdle ==
    /\ analysis = <<<<HeroShowcase>>>>
    /\ reportFiles = [t \in Timestamps |-> <<>>]
    /\ sessionFiles = [t \in Timestamps |-> <<>>]
    /\ latestFile = <<>>
    /\ videoFiles = {}
    /\ pc = "idle"
    /\ timestamp = 0
    /\ num_videos_per_image = 3
    /\ img_idx = 0
    /\ prompt_idx = 0
    /\ total_video_index = 0
    /\ result = NoJobResult
    /\ successful_videos = <<>>
    /\ failed_videos = <<>>
    /\ report = NoReport
    /\ session_videos = <<>>
    /\ sessions = 0
    /\ faults = 0
    /\ submitted = 0
    /\ downloads = <<>>
    /\ latestAtStart = <<>>
    /\ writes = <<>>
    /\ exit_code = <<>>
    /\ merge = NoMerge

InitAsync == SessionIdle /\ AsyncIdle /\ TransitionIdle /\ PipelineIdle

\* the call ends: it returns a dict or an exception leaves it
Finish(out) ==
    IF out.tag = "return"
    THEN apc' = "returned" /\ aresult' = out.value
    ELSE apc' = "raised" /\ aresult' = NoResult

\* the submission: start_async_invoke and the read of invocationArn
AStart(resp) ==
    /\ apc = "start"
    /\ LET started == start_async_invoke(resp)
       IN IF started.tag = "raise"
          THEN /\ raisedExc' = started.exc
               /\ Finish(TryExcept(started, 1))
          ELSE /\ apc' = "poll"
               /\ UNCHANGED <<aresult, raisedExc>>
    /\ UNCHANGED <<attempt, lastResp>>
    /\ UNCHANGED <<folderVars, sessionVars, exit_code, transitionVars, merge, pipelineVars>>

\* one pass of the poll loop: the sleep, get_async_invoke and the branches
APoll(resp) ==
    /\ apc = "poll"
    /\ MoreAttempts(attempt)
    /\ attempt' = attempt + 1
    /\ lastResp' = resp
    /\ LET step == HandlePoll(resp, attempt + 1, 1)
       IN IF step.tag = "continue"
          THEN UNCHANGED <<apc, aresult, raisedExc>>
          ELSE /\ raisedExc' = IF step.tag = "raise" THEN step.exc ELSE raisedExc
               /\ Finish(TryExcept(step, 1))
    /\ UNCHANGED <<folderVars, sessionVars, exit_code, transitionVars, merge, pipelineVars>>

\* the loop is over without a return: the timeout dict is returned
ATimeout ==
    /\ apc = "poll"
    /\ ~MoreAttempts(attempt)
    /\ Finish(TryExcept(Return(TimedOutResult(1)), 1))
    /\ UNCHANGED <<attempt, lastResp, raisedExc>>
    /\ UNCHANGED <<folderVars, sessionVars, exit_code, transitionVars, merge, pipelineVars>>

NextAsync ==
    \/ \E resp \in StartResponses : AStart(resp)
    \/ \E resp \in PollResponses : APoll(resp)
    \/ ATimeout

SpecAsync == InitAsync /\ [][NextAsync]_vars


\* ------------------------------------------------------- merge_videos.py: get_video_info
\* bounds of the transition path: the number of segments of one call
MaxSegments == 3

\* What one ffprobe run answers: launching it raises, or it exits with
\* returncode and prints stdout, which parses as JSON or not; the JSON holds
\* streams, each with optional keys codec_type and duration (<<>> = absent).
ProbeOut(raises, returncode, parses, streams) ==
    [raises |-> raises, returncode |-> returncode, parses |-> parses, streams |-> streams]
Stream(codec_type, duration) == [codec_type |-> codec_type, duration |-> duration]
\* the text of a duration: a number (in tenths of a second) or not one
Seconds(d) == [numeric |-> TRUE, value |-> d]
NotANumber == [numeric |-> FALSE, value |-> 0]

\* durations in tenths of a second
Durations == {0, 3, 5, 50}
TransitionDurations == {5, 10}

ProbeToolMissing == ProbeOut(TRUE, 0, FALSE, <<>>)
ProbeExitsNonZero == ProbeOut(FALSE, 1, FALSE, <<>>)
ProbeUnparsable == ProbeOut(FALSE, 0, FALSE, <<>>)
ProbeNoStreams == ProbeOut(FALSE, 0, TRUE, <<>>)
ProbeAudioOnly == ProbeOut(FALSE, 0, TRUE, <<Stream(<<"audio">>, <<Seconds(50)>>)>>)
ProbeNoCodecType == ProbeOut(FALSE, 0, TRUE, <<Stream(<<>>, <<Seconds(50)>>)>>)
ProbeNoDuration == ProbeOut(FALSE, 0, TRUE, <<Stream(<<"audio">>, <<>>), Stream(<<"video">>, <<>>)>>)
ProbeDurationNA == ProbeOut(FALSE, 0, TRUE, <<Stream(<<"video">>, <<NotANumber>>)>>)
ProbeVideo(d) == ProbeOut(FALSE, 0, TRUE, <<Stream(<<"video">>, <<Seconds(d)>>)>>)
ProbeOutputs ==
    {ProbeToolMissing, ProbeExitsNonZero, ProbeUnparsable, ProbeNoStreams, ProbeAudioOnly,
     ProbeNoCodecType, ProbeNoDuration, ProbeDurationNA}
    \cup {ProbeVideo(d) : d \in Durations}

\* None
None == <<>>

\* float(stream.get('duration', 0))
FloatOfDuration(duration) ==
    IF duration = <<>> THEN Return(0)
    ELSE IF duration[1].numeric THEN Return(duration[1].value)
    ELSE Raise(Exc("ValueError", "could not convert string to float"))

\* the loop over the streams from stream i on: the first video stream
\* returns the dict, a stream without codec_type raises KeyError
RECURSIVE FirstVideoStream(_, _)
FirstVideoStream(streams, i) ==
    IF i > Len(streams) THEN Return(None)
    ELSE IF streams[i].codec_type = <<>> THEN Raise(KeyError("'codec_type'"))
    ELSE IF streams[i].codec_type[1] = "video"
         THEN LET d == FloatOfDuration(streams[i].duration)
              IN IF d.tag = "raise" THEN d
                 ELSE Return(<<[width |-> 1280, height |-> 720, duration |-> d.value]>>)
    ELSE FirstVideoStream(streams, i + 1)

\* get_video_info: <<>> for None, <<dict>> for the dict
get_video_info(probe) ==
    LET body == IF probe.raises THEN Raise(Exc("FileNotFoundError", "ffprobe"))
                ELSE IF probe.returncode # 0 THEN Return(None)
                ELSE IF ~probe.parses THEN Raise(Exc("ValueError", "JSONDecodeError"))
                ELSE FirstVideoStream(probe.streams, 1)
    IN IF body.tag = "raise" THEN None ELSE body.value

\* ------------------------------------------------------- merge_videos_with_transitions
\* what ffmpeg does when run: exits 0, exits non-zero, or cannot be launched
FfmpegRuns == {"exit 0", "exit 1", "raises"}

\* ",fade=t=in:st=0:d=T" and ",fade=t=out:st=S:d=T": times in tenths of a second
Fade(st, d) == [st |-> st, d |-> d]

\* fade_start = video_info['duration'] - transition_duration
FadeStart(duration, transition_duration) == duration - transition_duration

\* the filter built for segment i (counting from 1) of n: its fades
SegmentFilter(i, n, probe, transition_duration) ==
    [fade_in |-> IF i > 1 THEN <<Fade(0, transition_duration)>> ELSE <<>>,
     fade_out |->
        IF i < n
        THEN LET video_info == get_video_info(probe)
             IN IF video_info # None /\ video_info[1].duration > 0
                THEN <<Fade(FadeStart(video_info[1].duration, transition_duration),
                             transition_duration)>>
                ELSE <<>>
        ELSE <<>>]

\* the call: probes[i] is what ffprobe answers for video_files[i]
merge_videos_with_transitions(video_files, probes, transition_duration, ffmpeg) ==
    LET n == Len(video_files)
        first_info == get_video_info(probes[1])
    IN IF first_info = None
       THEN [filters |-> <<>>, ffmpeg_ran |-> FALSE, returned |-> FALSE]
       ELSE [filters |-> [i \in 1..n |-> SegmentFilter(i, n, probes[i], transition_duration)],
             ffmpeg_ran |-> TRUE,
             returned |-> (ffmpeg = "exit 0")]

\* the arguments of a call and the environment's answers
TransitionCalls ==
    UNION {[video_files : {[i \in 1..n |-> i]},
            probes : [1..n -> ProbeOutputs],
            transition_duration : TransitionDurations,
            ffmpeg : FfmpegRuns] : n \in 1..MaxSegments}

\* the session and merge variables while only the transition path is looked at
RestIdle ==
    /\ SessionIdle
    /\ AsyncIdle
    /\ PipelineIdle

InitTransitions ==
    /\ RestIdle
    /\ tcall \in {<<c>> : c \in TransitionCalls}
    /\ tresult = <<>>

CallTransitions ==
    /\ tresult = <<>>
    /\ tresult' = <<merge_videos_with_transitions(tcall[1].video_files, tcall[1].probes,
                                                  tcall[1].transition_duration, tcall[1].ffmpeg)>>
    /\ UNCHANGED <<tcall, folderVars, sessionVars, asyncVars, exit_code, merge, pipelineVars>>

NextTransitions == CallTransitions

SpecTransitions == InitTransitions /\ [][NextTransitions]_vars


\* ------------------------------------------------------- merge_videos.py: file names
\* the character codes that order file names
Ord(c) ==
    CASE c = "." -> 46 [] c = "_" -> 95 [] c = "d" -> 100 [] c = "e" -> 101
      [] c = "f" -> 102 [] c = "h" -> 104 [] c = "i" -> 105 [] c = "l" -> 108
      [] c = "o" -> 111 [] c = "r" -> 114 [] c = "s" -> 115 [] c = "t" -> 116
      [] OTHER -> 32
DigitCodes(digits) == [i \in 1..Len(digits) |-> 48 + digits[i]]

\* a session timestamp as text: YYYYMMDD and HHMMSS around the "_"
TimestampText(t) == <<"20240101", IF t = 1 THEN "120000" ELSE "120001">>
\* the timestamp a text stands for
TimestampOf(text) == CHOOSE t \in Timestamps : TimestampText(t) = text

\* the code of the one character in which the timestamps differ
TimestampCodes(t) == <<48 + t - 1>>

\* the codes of video_<ts>_<img>_<prompt>_<slug>.mp4 after the common
\* "video_YYYYMMDD_12000" and up to the "." of the extension
FileCodes(name) ==
    TimestampCodes(name.timestamp) \o <<95>> \o DigitCodes(name.img) \o <<95>>
    \o DigitCodes(name.prompt) \o <<95>>
    \o [i \in 1..Len(name.slug) |-> Ord(name.slug[i])] \o <<46>>

\* a < b for strings given by their codes
RECURSIVE CodesLess(_, _)
CodesLess(a, b) ==
    IF b = <<>> THEN FALSE
    ELSE IF a = <<>> THEN TRUE
    ELSE IF Head(a) # Head(b) THEN Head(a) < Head(b)
    ELSE CodesLess(Tail(a), Tail(b))
PathGreater(a, b) == CodesLess(FileCodes(b), FileCodes(a))
PathLess(a, b) == CodesLess(FileCodes(a), FileCodes(b))

\* list.sort() / sorted(): insertion into a sorted list, equal paths kept
RECURSIVE InsertSorted(_, _)
InsertSorted(x, sorted) ==
    IF sorted = <<>> THEN <<x>>
    ELSE IF PathLess(x, Head(sorted)) THEN <<x>> \o sorted
    ELSE <<Head(sorted)>> \o InsertSorted(x, Tail(sorted))
RECURSIVE SortPaths(_)
SortPaths(seq) ==
    IF seq = <<>> THEN <<>> ELSE InsertSorted(Head(seq), SortPaths(Tail(seq)))

\* list(glob(...)): the matching files in some order
RECURSIVE ListOf(_)
ListOf(S) ==
    IF S = {} THEN <<>> ELSE LET x == CHOOSE y \in S : TRUE IN <<x>> \o ListOf(S \ {x})

\* generated_ads_dir.glob('video_*.mp4')
GlobAllVideos == videoFiles
\* generated_ads_dir.glob(f"video_{session_timestamp}_*.mp4")
GlobSessionVideos(session_timestamp) == {f \in videoFiles : f.timestamp = session_timestamp}
\* generated_ads_dir.glob('session_videos_*.json'), by the timestamp in the name
GlobSessionFiles == {t \in Timestamps : sessionFiles[t] # <<>>}

\* ------------------------------------------------------- get_latest_session_timestamp
\* session_videos_<ts>.json: filename.split('_')
StemParts(t) == <<"session", "videos">> \o TimestampText(t)

\* <<>> for None, <<timestamp>> otherwise; latest_readable tells whether
\* json.load of latest_session_videos.json goes through
get_latest_session_timestampFirstFile(latest_readable) ==
    IF latestFile # <<>> /\ latest_readable THEN <<latestFile[1].timestamp>>
    ELSE IF GlobSessionFiles # {}
         THEN LET first_file == CHOOSE t \in GlobSessionFiles :
                                   \A u \in GlobSessionFiles :
                                       u = t \/ CodesLess(TimestampCodes(t), TimestampCodes(u))
                  parts == StemParts(first_file)
              IN IF Len(parts) >= 4 THEN <<TimestampOf(<<parts[3], parts[4]>>)>> ELSE None
    ELSE None
get_latest_session_timestamp(latest_readable) ==
    IF latestFile # <<>> /\ latest_readable THEN <<latestFile[1].timestamp>>
    ELSE IF GlobSessionFiles # {}
         THEN LET latest_file == CHOOSE t \in GlobSessionFiles :
                                    \A u \in GlobSessionFiles :
                                        u = t \/ CodesLess(TimestampCodes(u), TimestampCodes(t))
                  parts == StemParts(latest_file)
              IN IF Len(parts) >= 4 THEN <<TimestampOf(<<parts[3], parts[4]>>)>> ELSE None
    ELSE None

\* ------------------------------------------------------- merge_videos_concat
\* the call: concat_list.txt is written, ffmpeg is run, and the file is
\* removed on every way out
merge_videos_concat(video_files, ffmpeg) ==
    [concat_written |-> video_files,
     concat_left |-> FALSE,
     ffmpeg_ran |-> (ffmpeg # "raises"),
     returned |-> (ffmpeg = "exit 0")]

\* ------------------------------------------------------- merge_videos_concat, step by step
\* the files of output_path.parent
ConcatList == <<"concat_list.txt">>
OutputPath == <<"merged.mp4">>
Notes == <<"notes.txt">>
Segment(i) == <<"video.mp4", i>>

\* a call: the segments, what ffmpeg does, whether an ffmpeg that exits
\* non-zero has written part of the output, and the files found in the
\* folder (the segments, and possibly a concat_list.txt and an output left
\* by an earlier run and a file of someone else)
ConcatCalls ==
    UNION {[video_files : {[i \in 1..n |-> Segment(i)]},
            ffmpeg : FfmpegRuns,
            partial : BOOLEAN,
            before : {{Segment(i) : i \in 1..n} \cup extra :
                         extra \in SUBSET {ConcatList, OutputPath, Notes}}] :
           n \in 1..MaxSegments}

\* where the call is, the files of the folder, the lines written to
\* concat_list.txt and the value returned (<<>> before the return)
ConcatState(at, files, listed, returned) ==
    [at |-> at, files |-> files, listed |-> listed, returned |-> returned]

InitConcat ==
    /\ RestIdle
    /\ tcall \in {<<c>> : c \in ConcatCalls}
    /\ tresult = <<>>

\* with open(concat_file, 'w'): one line per segment
WriteConcatList ==
    /\ tresult = <<>>
    /\ tresult' = <<ConcatState("try", tcall[1].before \cup {ConcatList},
                                tcall[1].video_files, <<>>)>>
    /\ UNCHANGED <<tcall, folderVars, sessionVars, asyncVars, exit_code, merge, pipelineVars>>

\* subprocess.run(cmd) and the branches on its returncode, up to the
\* return statement or the except clause
RunFfmpeg ==
    /\ tresult # <<>>
    /\ tresult[1].at = "try"
    /\ LET st == tresult[1]
           ffmpeg == tcall[1].ffmpeg
       IN tresult' =
             IF ffmpeg = "exit 0"
             THEN <<ConcatState("finally", (st.files \cup {OutputPath}) \ {ConcatList},
                                st.listed, <<TRUE>>)>>
             ELSE IF ffmpeg = "exit 1"
             THEN <<ConcatState("finally",
                                IF tcall[1].partial THEN st.files \cup {OutputPath}
                                ELSE st.files,
                                st.listed, <<FALSE>>)>>
             ELSE <<ConcatState("finally", st.files, st.listed, <<FALSE>>)>>
    /\ UNCHANGED <<tcall, folderVars, sessionVars, asyncVars, exit_code, merge, pipelineVars>>

\* finally: if concat_file.exists(): concat_file.unlink()
FinallyKeepingList(files) == files
Finally(files) == IF ConcatList \in files THEN files \ {ConcatList} ELSE files

ConcatFinally ==
    /\ tresult # <<>>
    /\ tresult[1].at = "finally"
    /\ tresult' = <<[tresult[1] EXCEPT !.at = "returned", !.files = Finally(@)]>>
    /\ UNCHANGED <<tcall, folderVars, sessionVars, asyncVars, exit_code, merge, pipelineVars>>

NextConcat ==
    \/ WriteConcatList
    \/ RunFfmpeg
    \/ ConcatFinally

SpecConcat == InitConcat /\ [][NextConcat]_vars

\* ------------------------------------------------------- merge_generated_videos
\* What the environment answers during one run of merge_videos.py:
\* `ffmpeg -version`, the ffmpeg run of the merge, whether json.load of the
\* latest pointer and of the session manifest go through, and what ffprobe
\* answers for a segment.
MergeEnv(version, ffmpeg, latest_readable, manifest_readable, probe) ==
    [version |-> version, ffmpeg |-> ffmpeg, latest_readable |-> latest_readable,
     manifest_readable |-> manifest_readable, probe |-> probe]
MergeEnvs ==
    {MergeEnv("exit 0", f, l, m, p) :
        f \in FfmpegRuns, l \in BOOLEAN, m \in BOOLEAN, p \in {ProbeVideo(50), ProbeUnparsable}}
    \cup {MergeEnv(v, "raises", TRUE, TRUE, ProbeToolMissing) : v \in {"exit 1", "raises"}}

\* the names in the session manifest whose files exist, in manifest order
ManifestVideos(session_timestamp, manifest_readable) ==
    LET Exists(video_name) == video_name \in videoFiles
    IN IF sessionFiles[session_timestamp] # <<>> /\ manifest_readable
       THEN SelectSeq(sessionFiles[session_timestamp][1].session_videos, Exists)
       ELSE <<>>

\* the segments of a session: the manifest's, else those matching the
\* filename pattern; `strategy` names the one that gave them
ResolveSessionManifestOnly(session_timestamp, manifest_readable) ==
    LET from_manifest == ManifestVideos(session_timestamp, manifest_readable)
    IN IF from_manifest # <<>> THEN [video_files |-> from_manifest, strategy |-> "manifest"]
       ELSE [video_files |-> <<>>, strategy |-> "none"]
ResolveSessionMixed(session_timestamp, manifest_readable) ==
    LET from_manifest == ManifestVideos(session_timestamp, manifest_readable)
        from_pattern == SortPaths(ListOf(GlobSessionVideos(session_timestamp)))
        Unlisted(f) == \A i \in 1..Len(from_manifest) : from_manifest[i] # f
    IN IF from_manifest # <<>>
       THEN [video_files |-> from_manifest \o SelectSeq(from_pattern, Unlisted),
             strategy |-> "manifest"]
       ELSE IF from_pattern # <<>> THEN [video_files |-> from_pattern, strategy |-> "pattern"]
       ELSE [video_files |-> <<>>, strategy |-> "none"]
ResolveSession(session_timestamp, manifest_readable) ==
    LET from_manifest == ManifestVideos(session_timestamp, manifest_readable)
        from_pattern == SortPaths(ListOf(GlobSessionVideos(session_timestamp)))
    IN IF from_manifest # <<>> THEN [video_files |-> from_manifest, strategy |-> "manifest"]
       ELSE IF from_pattern # <<>> THEN [video_files |-> from_pattern, strategy |-> "pattern"]
       ELSE [video_files |-> <<>>, strategy |-> "none"]

\* lines 227-284: the segments to merge, the session timestamp and the
\* value of session_only after the fallbacks
Resolve(session_only, use_timestamp, env) ==
    LET session_timestamp ==
            IF session_only /\ use_timestamp = <<>>
            THEN get_latest_session_timestamp(env.latest_readable)
            ELSE use_timestamp
        found == IF session_only /\ session_timestamp # <<>>
                 THEN ResolveSession(session_timestamp[1], env.manifest_readable)
                 ELSE [video_files |-> <<>>, strategy |-> "none"]
        still_session_only == session_only /\ found.video_files # <<>>
    IN IF still_session_only
       THEN [video_files |-> SortPaths(found.video_files), strategy |-> found.strategy,
             session_timestamp |-> session_timestamp, session_only |-> TRUE]
       ELSE [video_files |-> SortPaths(SortPaths(ListOf(GlobAllVideos))), strategy |-> "scan",
             session_timestamp |-> session_timestamp, session_only |-> FALSE]

\* merge_type
MergeType(session_only, session_timestamp) ==
    IF session_only /\ session_timestamp # <<>> THEN <<"session", session_timestamp[1]>>
    ELSE <<"all available">>

\* output_filename: merged_<session timestamp>.mp4 or merged_<now>.mp4
OutputFilename(session_only, session_timestamp) ==
    IF session_timestamp # <<>> /\ session_only THEN <<"merged", session_timestamp[1]>>
    ELSE <<"merged", "now">>

\* the merge of the resolved segments on the chosen path
RunMerge(video_files, transition, transition_duration, env) ==
    IF transition
    THEN merge_videos_with_transitions(video_files, [i \in 1..Len(video_files) |-> env.probe],
                                       transition_duration, env.ffmpeg).returned
    ELSE merge_videos_concat(video_files, env.ffmpeg).returned

\* the merge report dict
MergeReport(resolved, transition, transition_duration) ==
    [timestamp |-> "now",
     session_timestamp |-> IF resolved.session_only THEN resolved.session_timestamp ELSE <<>>,
     source_videos |-> resolved.video_files,
     output_video |-> OutputFilename(resolved.session_only, resolved.session_timestamp),
     transition |-> transition,
     transition_duration |-> IF transition THEN transition_duration ELSE 0,
     total_videos |-> Len(resolved.video_files),
     merge_type |-> MergeType(resolved.session_only, resolved.session_timestamp)]

\* what a run of merge_videos.py did: how the segments were resolved (with
\* session_timestamp as it stands at the end), whether a merge was run on
\* them and what it returned, the report written (<<>> for none) and the
\* exit code
MergeRun(strategy, session_timestamp, video_files, merged, returned, merge_report, code) ==
    [strategy |-> strategy, session_timestamp |-> session_timestamp,
     video_files |-> video_files, merged |-> merged,
     returned |-> returned, merge_report |-> merge_report, exit_code |-> code]

\* merge_generated_videos, as main calls it (duration: transition_duration)
merge_generated_videos(folder_exists, transition, duration, session_only, use_timestamp, env) ==
    IF ~folder_exists THEN MergeRun("none", use_timestamp, <<>>, FALSE, FALSE, <<>>, 1)
    ELSE LET resolved == Resolve(session_only, use_timestamp, env)
         IN IF resolved.video_files = <<>>
            THEN MergeRun(resolved.strategy, resolved.session_timestamp, <<>>, FALSE, FALSE,
                          <<>>, 1)
            ELSE LET success == RunMerge(resolved.video_files, transition, duration, env)
                 IN MergeRun(resolved.strategy, resolved.session_timestamp,
                             resolved.video_files, TRUE, success,
                             IF success
                             THEN <<MergeReport(resolved, transition, duration)>>
                             ELSE <<>>,
                             IF success THEN 0 ELSE 1)

\* ------------------------------------------------------- merge_videos.py: main
\* the command line: --videos (<<>> when not given), --transition,
\* --transition-duration, --all-videos, --timestamp (<<>> when not given)
MergeArgs(videos, transition, transition_duration, all_videos, use_timestamp) ==
    [videos |-> videos, transition |-> transition,
     transition_duration |-> transition_duration, all_videos |-> all_videos,
     timestamp |-> use_timestamp]

\* a path given on the command line that names no file
MissingVideo == LocalFilename(1, 9, 9, TechnicalDetail)
Reverse(seq) == [i \in 1..Len(seq) |-> seq[Len(seq) + 1 - i]]
\* the values of --videos tried: not given, a missing file, the folder's
\* videos last first, a missing file and the folder's videos
VideosChoices ==
    LET all == SortPaths(ListOf(videoFiles))
    IN {<<>>, <<MissingVideo>>}
       \cup (IF all = <<>> THEN {} ELSE {Reverse(all), <<MissingVideo>> \o all})

\* the folder argument is generated_ads, which generate_ads creates
FolderExists == sessions > 0

\* an answer the run does not ask for is left at its default
Relevant(args, env) ==
    /\ args.videos # <<>> => ~args.all_videos /\ args.timestamp = <<>>
    /\ args.all_videos => args.timestamp = <<>>
    /\ ~args.transition => env.probe = ProbeVideo(50)
    /\ args.videos # <<>> \/ args.all_videos => env.manifest_readable /\ env.latest_readable
    /\ args.timestamp # <<>> => env.latest_readable
    /\ env.version # "exit 0" =>
          args.videos = <<>> /\ ~args.all_videos /\ args.timestamp = <<>> /\ ~args.transition

MergeCalls ==
    {c \in [args : {MergeArgs(v, tr, 5, a, t) :
                        v \in VideosChoices, tr \in BOOLEAN, a \in BOOLEAN,
                        t \in {<<>>} \cup {<<u>> : u \in Timestamps}},
            env : MergeEnvs] : Relevant(c.args, c.env)}

\* check_ffmpeg
check_ffmpeg(version) == version = "exit 0"

\* main: the run of merge_videos.py
merge_main(args, env) ==
    IF ~check_ffmpeg(env.version) THEN MergeRun("none", <<>>, <<>>, FALSE, FALSE, <<>>, 1)
    ELSE IF args.videos # <<>>
    THEN LET Exists(video_path) == video_path \in videoFiles
             video_files == SelectSeq(args.videos, Exists)
         IN IF video_files = <<>>
            THEN MergeRun("explicit", <<>>, <<>>, FALSE, FALSE, <<>>, 1)
            ELSE LET success == RunMerge(video_files, args.transition,
                                         args.transition_duration, env)
                 IN MergeRun("explicit", <<>>, video_files, TRUE, success, <<>>,
                             IF success THEN 0 ELSE 1)
    ELSE merge_generated_videos(FolderExists, args.transition, args.transition_duration,
                                ~args.all_videos, args.timestamp, env)

\* merge_videos.py is run while no generate_ads call is running; one run is
\* looked at between two sessions (a second run would find the same folder)
MergeMain ==
    /\ pc \in {"idle", "done", "raised", "aborted"}
    /\ merge = NoMerge
    /\ \E c \in MergeCalls :
          merge' = <<[args |-> c.args, env |-> c.env, out |-> merge_main(c.args, c.env)]>>
    /\ UNCHANGED <<folderVars, sessionVars, exit_code, otherVars>>

\* the sessions of the merge specification: one image without prompts and
\* one with two, jobs that complete or fail, retrievals that find the video
\* or do not
InitMerge ==
    /\ Init
    /\ analysis = <<<<>>, <<HeroShowcase, LifestyleFocus>>>>

NextMerge ==
    \/ \E ts \in Timestamps : StartSession(ts)
    \/ \E remote \in {RemoteGood, RemoteFailed} : Generate(remote)
    \/ \E storage \in {StorageGood, StorageNoMp4} : HandleSuccess(storage)
    \/ HandleFailure
    \/ WriteReport
    \/ WriteSessionFile
    \/ WriteLatest
    \/ MergeMain

SpecMerge == InitMerge /\ [][NextMerge]_vars

\* ------------------------------------------------------- product_analysis.py
\* bound: the number of selected images of one analysis run
MaxImages == 2

\* What the analysis model answers for one image: invoke_model raises, the
\* response has no content, its text holds no {...}, the {...} does not
\* parse, or it parses to a dict with or without the key video_prompts
\* (video_prompts: <<>> for no key, <<list>> for the list of prompts).
Answer(kind, video_prompts) == [kind |-> kind, video_prompts |-> video_prompts]
Answers ==
    {Answer(k, <<>>) : k \in {"raises", "no content", "no json", "bad json", "json"}}
    \cup {Answer("json", <<v>>) : v \in {<<HeroShowcase>>, ThreePrompts}}

\* an entry of selected_images: whether it has a filename naming an existing
\* file of product_images, and what the model answers for it
SelectedImage(exists, answer) == [exists |-> exists, answer |-> answer]
SelectedImages ==
    {SelectedImage(TRUE, a) : a \in Answers}
    \cup {SelectedImage(FALSE, Answer("json", <<ThreePrompts>>))}

\* an entry of per_image_analysis: the keys image_index, error and
\* video_prompts (0 and <<>> for a key that is absent)
AnalysisEntry(image_index, error, video_prompts) ==
    [image_index |-> image_index, error |-> error, video_prompts |-> video_prompts]

\* analyze_single_image_and_generate_prompts: the dict read from the
\* answer, or the exception that is printed and raised again
analyze_single_image_and_generate_prompts(answer) ==
    IF answer.kind = "raises" THEN Raise(Exc("ClientError", "invoke_model"))
    ELSE IF answer.kind = "no content"
         THEN Raise(Exc("ValueError", "Unexpected response format from Bedrock"))
    ELSE IF answer.kind = "no json"
         THEN Return(AnalysisEntry(0, <<"Could not extract JSON from response">>, <<>>))
    ELSE IF answer.kind = "bad json"
         THEN Return(AnalysisEntry(0, <<"Failed to parse JSON">>, <<>>))
    ELSE Return(AnalysisEntry(0, <<>>, answer.video_prompts))

\* one pass of the loop over selected_images: what it appends to
\* all_analyses, or the exception that leaves the loop
AnalyzeImage(selected_img, idx) ==
    IF ~selected_img.exists THEN Return(<<>>)
    ELSE LET out == analyze_single_image_and_generate_prompts(selected_img.answer)
         IN IF out.tag = "return" THEN Return(<<[out.value EXCEPT !.image_index = idx]>>)
            ELSE IF Catches(out.exc) THEN Return(<<AnalysisEntry(idx, <<out.exc.text>>, <<>>)>>)
            ELSE out

\* the loop from entry idx on: all_analyses, or the exception
RECURSIVE AnalyzeFrom(_, _)
AnalyzeFrom(selected, idx) ==
    IF idx > Len(selected) THEN Return(<<>>)
    ELSE LET first == AnalyzeImage(selected[idx], idx)
             rest == AnalyzeFrom(selected, idx + 1)
         IN IF first.tag = "raise" THEN first
            ELSE IF rest.tag = "raise" THEN rest
            ELSE Return(first.value \o rest.value)

\* sum(len(a.get('video_prompts', [])) for a in all_analyses)
RECURSIVE TotalVideoPrompts(_)
TotalVideoPrompts(all_analyses) ==
    IF all_analyses = <<>> THEN 0
    ELSE (IF Head(all_analyses).video_prompts = <<>> THEN 0
          ELSE Len(Head(all_analyses).video_prompts[1]))
         + TotalVideoPrompts(Tail(all_analyses))

\* final_result
FinalResult(all_analyses) ==
    LET HasPrompts(a) == a.video_prompts # <<>>
        HasError(a) == a.error # <<>>
    IN [per_image_analysis |-> all_analyses,
        successful_analyses |-> Len(SelectSeq(all_analyses, HasPrompts)),
        failed_analyses |-> Len(SelectSeq(all_analyses, HasError)),
        total_video_prompts |-> TotalVideoPrompts(all_analyses)]

\* a run of product_analysis.py: has_selected_images tells whether the
\* selection file holds the key selected_images
AnalysisCalls ==
    UNION {[has_selected_images : BOOLEAN, selected : [1..n -> SelectedImages]] :
           n \in 1..MaxImages}

\* analyze_product_and_generate_prompts: final_result, written to
\* product_analysis_prompts.json before it is returned
analyze_product_and_generate_prompts(call) ==
    IF ~call.has_selected_images
    THEN Raise(Exc("ValueError", "No selected images found in the analysis file"))
    ELSE LET all_analyses == AnalyzeFrom(call.selected, 1)
         IN IF all_analyses.tag = "raise" THEN all_analyses
            ELSE Return(FinalResult(all_analyses.value))

\* main of product_analysis.py: the file written (<<>> for none) and the
\* exit code
product_analysis_main(call) ==
    LET out == analyze_product_and_generate_prompts(call)
    IN [written |-> IF out.tag = "return" THEN <<out.value>> ELSE <<>>,
        exit_code |-> IF out.tag = "raise" THEN 1 ELSE 0]

\* video_prompts = image_analysis.get('video_prompts', []) for each entry of
\* the file
PerImagePrompts(per_image_analysis) ==
    [k \in 1..Len(per_image_analysis) |->
        IF per_image_analysis[k].video_prompts = <<>> THEN <<>>
        ELSE per_image_analysis[k].video_prompts[1]]

\* the folder before the analysis step has run: no prompts file yet
InitAnalysis ==
    /\ analysis = <<>>
    /\ reportFiles = [t \in Timestamps |-> <<>>]
    /\ sessionFiles = [t \in Timestamps |-> <<>>]
    /\ latestFile = <<>>
    /\ videoFiles = {}
    /\ pc = "idle"
    /\ timestamp = 0
    /\ num_videos_per_image \in NumVideosChoices
    /\ img_idx = 0
    /\ prompt_idx = 0
    /\ total_video_index = 0
    /\ result = NoJobResult
    /\ successful_videos = <<>>
    /\ failed_videos = <<>>
    /\ report = NoReport
    /\ session_videos = <<>>
    /\ sessions = 0
    /\ faults = 0
    /\ submitted = 0
    /\ downloads = <<>>
    /\ latestAtStart = <<>>
    /\ writes = <<>>
    /\ exit_code = <<>>
    /\ merge = NoMerge
    /\ AsyncIdle
    /\ PipelineIdle
    /\ tcall \in {<<c>> : c \in AnalysisCalls}
    /\ tresult = <<>>

\* product_analysis.py runs
AnalyzeMain ==
    /\ tresult = <<>>
    /\ LET ran == product_analysis_main(tcall[1])
       IN /\ tresult' = <<ran>>
          /\ analysis' = IF ran.written # <<>>
                         THEN PerImagePrompts(ran.written[1].per_image_analysis)
                         ELSE analysis
    /\ UNCHANGED <<reportFiles, sessionFiles, latestFile, videoFiles, tcall>>
    /\ UNCHANGED <<sessionVars, asyncVars, exit_code, merge, pipelineVars>>

\* ads_generation.py runs once on the prompts file the analysis wrote
GenerateAfterAnalysis(ts) ==
    /\ tresult # <<>>
    /\ tresult[1].written # <<>>
    /\ sessions = 0
    /\ StartSession(ts)

NextAnalysis ==
    \/ AnalyzeMain
    \/ \E ts \in Timestamps : GenerateAfterAnalysis(ts)
    \/ \E remote \in {RemoteGood, RemoteFailed} : Generate(remote)
    \/ HandleSuccess(StorageGood)
    \/ HandleFailure
    \/ WriteReport
    \/ WriteSessionFile
    \/ WriteLatest

SpecAnalysis == InitAnalysis /\ [][NextAnalysis]_vars

\* ------------------------------------------------------- generate_video_ads.py
\* the command line and the folder: what validate_folder_structure returns,
\* --skip-selection, --skip-analysis, whether --s3-bucket is given, --merge,
\* --merge-all, --transition
Plans ==
    [valid : BOOLEAN, skip_selection : BOOLEAN, skip_analysis : BOOLEAN,
     s3_bucket : BOOLEAN, merge : BOOLEAN, merge_all : BOOLEAN, transition : BOOLEAN]

\* the steps list built from the flags
Steps(p) ==
    (IF ~p.skip_selection THEN <<"Selection">> ELSE <<>>)
    \o (IF ~p.skip_analysis THEN <<"Analysis">> ELSE <<>>)
    \o (IF p.s3_bucket
        THEN <<"Generation">> \o (IF p.merge \/ p.merge_all THEN <<"Merge">> ELSE <<>>)
        ELSE <<>>)

\* what running a step's command does: the child cannot be launched, or it
\* runs and exits with returncode
StepRun(raises, returncode) == [raises |-> raises, returncode |-> returncode]
StepRuns == {StepRun(TRUE, 0)} \cup {StepRun(FALSE, c) : c \in {0, 1, 2}}

\* run_command: subprocess.run(..., check=True) raises CalledProcessError on
\* a non-zero exit, which is caught; any other exception is not
run_commandIgnoringExit(step_run) ==
    IF step_run.raises THEN Raise(Exc("FileNotFoundError", "python")) ELSE Return(TRUE)
run_command(step_run) ==
    IF step_run.raises THEN Raise(Exc("FileNotFoundError", "python"))
    ELSE IF step_run.returncode # 0 THEN Return(FALSE)
    ELSE Return(TRUE)

\* main up to the loop: the folder check and the steps list
PipelineStart(p) ==
    /\ ppc = "idle"
    /\ plan' = <<p>>
    /\ IF p.valid
       THEN ppc' = "steps" /\ coord_exit' = coord_exit
       ELSE ppc' = "exited" /\ coord_exit' = <<1>>
    /\ UNCHANGED <<launched, codes>>
    /\ UNCHANGED <<folderVars, sessionVars, asyncVars, exit_code, transitionVars, merge>>

\* one pass of the loop over the steps: the step's command is run; the
\* coordinator exits 1 when run_command returns False, and an exception of
\* run_command ends it with a traceback (exit code 1)
RunStep(step_run) ==
    /\ ppc = "steps"
    /\ Len(launched) < Len(Steps(plan[1]))
    /\ launched' = Append(launched, Steps(plan[1])[Len(launched) + 1])
    /\ codes' = IF step_run.raises THEN codes ELSE Append(codes, step_run.returncode)
    /\ LET ran == run_command(step_run)
       IN IF ran.tag = "return" /\ ran.value
          THEN UNCHANGED <<ppc, coord_exit>>
          ELSE ppc' = "exited" /\ coord_exit' = <<1>>
    /\ UNCHANGED plan
    /\ UNCHANGED <<folderVars, sessionVars, asyncVars, exit_code, transitionVars, merge>>

\* after the loop: the summary is printed from the files of the folder; it
\* goes through and main ends (exit code 0), or reading a file raises
PrintSummary(readable) ==
    /\ ppc = "steps"
    /\ Len(launched) = Len(Steps(plan[1]))
    /\ ppc' = "exited"
    /\ coord_exit' = IF readable THEN <<0>> ELSE <<1>>
    /\ UNCHANGED <<plan, launched, codes>>
    /\ UNCHANGED <<folderVars, sessionVars, asyncVars, exit_code, transitionVars, merge>>

InitPipeline == SessionIdle /\ AsyncIdle /\ TransitionIdle /\ PipelineIdle

NextPipeline ==
    \/ \E p \in Plans : PipelineStart(p)
    \/ \E step_run \in StepRuns : RunStep(step_run)
    \/ \E readable \in BOOLEAN : PrintSummary(readable)

SpecPipeline == InitPipeline /\ [][NextPipeline]_vars

\* ------------------------------------------------------- properties
Range(seq) == {seq[i] : i \in 1..Len(seq)}
\* the number of download_video_from_s3 calls made for job k in the session
DownloadCalls(k) == Cardinality({i \in 1..Len(downloads) : downloads[i][1] = k})
\* the number of writes of latest_session_videos.json in the session
LatestWrites == Cardinality({i \in 1..Len(writes) : writes[i] = "latest"})
\* every job of the session has been submitted and has its outcome recorded
AllJobsTerminal ==
    /\ pc \notin {"generate", "handle"}
    /\ total_video_index = JobCount(num_videos_per_image)
    /\ Len(successful_videos) + Len(failed_videos) = total_video_index

\* C1: in a generate_ads session download_video_from_s3 is called exactly
\* once for a job whose generate_video_async outcome is success, and only
\* once that outcome has been returned; it is never called for a job whose
\* outcome is failed or timed out.
C1_RetrievalOnlyAfterSuccess ==
    /\ [](/\ \A i \in 1..Len(successful_videos) :
                /\ successful_videos[i].success
                /\ DownloadCalls(successful_videos[i].video_index) = 1
          /\ \A i \in 1..Len(failed_videos) :
                /\ ~failed_videos[i].success
                /\ DownloadCalls(failed_videos[i].video_index) = 0
          /\ pc = "handle" => DownloadCalls(result.video_index) = 0
          /\ \A i \in 1..Len(downloads) : downloads[i][1] \in 1..total_video_index)
    /\ [][downloads' # downloads /\ downloads' # <<>> =>
             /\ pc = "handle"
             /\ result.success
             /\ result.video_index = total_video_index
             /\ \E v \in BOOLEAN : downloads' = Append(downloads, <<result.video_index, v>>)]_vars

C1_Witness ==
    /\ pc = "done"
    /\ Len(successful_videos) >= 1
    /\ Len(failed_videos) >= 2
    /\ Len(downloads) = Len(successful_videos)

\* the manifest of the running session: its timestamp and produced files
IsManifestOfSession(file) ==
    /\ file # <<>>
    /\ file[1].timestamp = timestamp
    /\ file[1].session_videos = session_videos

C3_LatestWrittenOnceAtEnd ==
    /\ LatestWrites <= 1
    /\ LatestWrites = 1 =>
          /\ writes = <<"report", "session", "latest">>
          /\ AllJobsTerminal
          /\ reportFiles[timestamp] = <<report>>
          /\ IsManifestOfSession(sessionFiles[timestamp])
    /\ LatestWrites = 0 => latestFile = latestAtStart
    /\ pc \in {"generate", "handle"} => writes = <<>>

C3_Witness ==
    /\ LatestWrites = 1
    /\ sessions = 2
    /\ latestAtStart # <<>>
    /\ latestAtStart # latestFile
    /\ Len(failed_videos) >= 1

\* the dict is one of the outcomes: success with a location, or non-success
\* with an error text
TerminalOutcome(r) ==
    \/ r.success /\ r.error = <<>> /\ r.s3_location \in Locations
    \/ ~r.success /\ r.error # <<>> /\ r.s3_location = NoLocation

\* C4: generate_video_async never raises; it returns an outcome for every
\* behaviour of the remote, and an exception of the submission or of a poll
\* (a malformed response included) becomes a non-success outcome whose error
\* carries the exception text.
C4_NeverRaises ==
    /\ apc # "raised"
    /\ apc = "returned" => TerminalOutcome(aresult)
    /\ apc = "returned" /\ raisedExc # NoExc =>
          /\ ~aresult.success
          /\ aresult.error = <<"Error generating video: ", raisedExc.text>>
    /\ apc \in {"start", "poll"} => ENABLED NextAsync

C4_Witness ==
    /\ apc = "returned"
    /\ raisedExc = KeyError("'outputDataConfig'")
    /\ attempt = 3

\* C5: a job whose status is neither Completed nor Failed on each of the 60
\* polls gets the timed-out outcome, which differs from the Failed ones;
\* the loop makes 60 polls for it and never more, and no poll follows one
\* that returned Completed or Failed.
C5_TimedOutAfter60Polls ==
    /\ [](/\ attempt <= 60
          /\ apc = "returned" /\ raisedExc = NoExc /\ ~IsTerminalStatus(lastResp) =>
                /\ attempt = 60
                /\ aresult = TimedOutResult(1)
          /\ apc = "returned" /\ aresult.error = TimedOutResult(1).error =>
                /\ attempt = 60
                /\ ~IsTerminalStatus(lastResp)
                /\ aresult.error[1] # "Generation failed: "
                /\ ~aresult.full_error_response
          /\ apc = "returned" /\ raisedExc = NoExc /\ lastResp.status = <<"Failed">> =>
                /\ aresult.error[1] = "Generation failed: "
                /\ aresult.error # TimedOutResult(1).error
          /\ IsTerminalStatus(lastResp) => apc \in {"returned", "raised"})
    /\ [][IsTerminalStatus(lastResp) => attempt' = attempt]_vars

C5_Witness ==
    /\ apc = "returned"
    /\ attempt = 60
    /\ aresult = TimedOutResult(1)
    /\ lastResp = PollResp(<<"Submitted">>, <<>>, <<>>)


\* the persisted files of the running session
PersistedReport == reportFiles[timestamp][1]
PersistedManifest == sessionFiles[timestamp][1]
ReportWritten == pc \in {"manifest", "latest", "done"}
TimedOutError == <<"Generation timed out after maximum attempts">>
\* the number of entries of a result list whose error starts with `prefix`
ErrorCount(videos, prefix) ==
    Cardinality({i \in 1..Len(videos) : videos[i].error[1] = prefix})

\* 2 images x 3 prompts, job 4 fails remotely, job 5 times out, the others
\* succeed and are retrieved, and the session is over
C6_Scenario ==
    /\ pc = "done"
    /\ analysis = <<ThreePrompts, ThreePrompts>>
    /\ num_videos_per_image = 3
    /\ Len(failed_videos) = 2
    /\ failed_videos[1].video_index = 4
    /\ failed_videos[1].error[1] = "Generation failed: "
    /\ failed_videos[2].video_index = 5
    /\ failed_videos[2].error = TimedOutError
    /\ \A i \in 1..Len(successful_videos) : successful_videos[i].local_filename # <<>>

\* C6 (as stated): in that scenario the report records 4 successes, 1 Failed
\* and 1 TimedOut summing to 6 attempted, and the manifest lists 4 names.
C6_SeparateFailedAndTimedOutCounts ==
    C6_Scenario =>
        /\ PersistedReport.successful_count = 4
        /\ PersistedReport.failed_count = 1
        /\ PersistedReport.successful_count + PersistedReport.failed_count + 1
              = PersistedReport.total_attempted
        /\ PersistedReport.total_attempted = 6
        /\ Len(PersistedManifest.session_videos) = 4

\* C6 (amended): in that scenario the report records successful_count 4 and
\* failed_count 2 summing to total_attempted 6, the Failed and the timed-out
\* job being two entries of failed_videos told apart by their error text,
\* and the manifest lists 4 names; in general failed_count is the number of
\* Failed, timed-out and exception outcomes together.
C6_FailedCountCoversTimedOut ==
    /\ C6_Scenario =>
          /\ PersistedReport.successful_count = 4
          /\ PersistedReport.failed_count = 2
          /\ PersistedReport.total_attempted = 6
          /\ Len(PersistedReport.failed_videos) = 2
          /\ PersistedReport.failed_videos[1].error[1] = "Generation failed: "
          /\ PersistedReport.failed_videos[2].error = TimedOutError
          /\ Len(PersistedManifest.session_videos) = 4
    /\ ReportWritten =>
          /\ PersistedReport.failed_count =
                ErrorCount(PersistedReport.failed_videos, "Generation failed: ")
                + ErrorCount(PersistedReport.failed_videos, TimedOutError[1])
                + ErrorCount(PersistedReport.failed_videos, "Error generating video: ")
          /\ PersistedReport.successful_count + PersistedReport.failed_count
                = PersistedReport.total_attempted

C6_Witness ==
    /\ C6_Scenario
    /\ PersistedReport.failed_count = 2
    /\ latestFile = <<PersistedManifest>>

\* the number a digit string stands for
RECURSIVE DigitsValue(_)
DigitsValue(d) ==
    IF d = <<>> THEN 0 ELSE 10 * DigitsValue(SubSeq(d, 1, Len(d) - 1)) + d[Len(d)]
\* the (image ordinal, prompt ordinal) a file name encodes
Ordinals(name) == <<DigitsValue(name.img), DigitsValue(name.prompt)>>
ImageMajorBefore(a, b) == a[1] < b[1] \/ (a[1] = b[1] /\ a[2] < b[2])
\* the session is over, every job succeeded and was retrieved
AllRetrieved ==
    /\ pc = "done"
    /\ failed_videos = <<>>
    /\ \A i \in 1..Len(downloads) : downloads[i][2]

\* C7: when every job of a session of N images x M prompts succeeds and is
\* retrieved, session_videos lists N*M names without duplicates in
\* image-major, prompt-minor order, and successful_count is N*M.
C7_ManifestImageMajor ==
    LET N == Len(analysis)
        M == Len(PromptsToUse(1, num_videos_per_image))
    IN AllRetrieved /\ (\A i \in 1..N : Len(PromptsToUse(i, num_videos_per_image)) = M) =>
          /\ Len(session_videos) = N * M
          /\ Cardinality(Range(session_videos)) = N * M
          /\ {Ordinals(name) : name \in Range(session_videos)} = (1..N) \X (1..M)
          /\ \A a, b \in 1..Len(session_videos) :
                a < b <=> ImageMajorBefore(Ordinals(session_videos[a]),
                                           Ordinals(session_videos[b]))
          /\ PersistedManifest.session_videos = session_videos
          /\ PersistedReport.successful_count = N * M

C7_Witness ==
    /\ AllRetrieved
    /\ analysis = <<ThreePrompts, ThreePrompts>>
    /\ num_videos_per_image = 3
    /\ Len(session_videos) = 6

\* the name of the artifact of a recorded job
NameOf(r) == [timestamp |-> r.timestamp, img |-> Pad2(r.image_index),
              prompt |-> Pad2(r.prompt_index), slug |-> Slug(r.prompt_type)]
RecordedJobs == Range(successful_videos) \cup Range(failed_videos)
Retrieved(k) == <<k, TRUE>> \in Range(downloads)

\* C8: the produced-files list the session builds, and the manifest it
\* writes, hold an artifact name exactly when the job returned success and
\* download_video_from_s3 returned True for it.
C8_ManifestIffRetrieved ==
    pc \in {"latest", "done"} =>
        /\ \A r \in RecordedJobs :
              NameOf(r) \in Range(session_videos) <=> (r.success /\ Retrieved(r.video_index))
        /\ Range(session_videos) \subseteq {NameOf(r) : r \in RecordedJobs}
        /\ Cardinality(Range(session_videos)) = Len(session_videos)
        /\ session_videos # <<>> => PersistedManifest.session_videos = session_videos
        /\ pc = "done" /\ session_videos # <<>> => latestFile[1].session_videos = session_videos

C8_Witness ==
    /\ pc = "done"
    /\ \E r \in Range(successful_videos) : Retrieved(r.video_index)
    /\ \E r \in Range(successful_videos) : ~Retrieved(r.video_index)
    /\ failed_videos # <<>>

\* the jobs whose retrieval returned False
Unretrieved == {downloads[i][1] : i \in {j \in 1..Len(downloads) : ~downloads[j][2]}}

\* C9: a job that completed remotely and whose retrieval failed is recorded
\* in successful_videos and counted in successful_count, its name is not in
\* the manifest, nothing is raised and the loops go on to the last job.
C9_RetrievalFailureKeepsSuccess ==
    /\ pc # "raised"
    /\ \A k \in Unretrieved :
          /\ \E i \in 1..Len(successful_videos) :
                /\ successful_videos[i].video_index = k
                /\ successful_videos[i].success
                /\ successful_videos[i].local_filename = <<>>
          /\ \A i \in 1..Len(failed_videos) : failed_videos[i].video_index # k
          /\ ReportWritten =>
                /\ \E i \in 1..Len(PersistedReport.successful_videos) :
                      PersistedReport.successful_videos[i].video_index = k
                /\ PersistedReport.successful_count = Len(downloads)
          /\ pc \in {"latest", "done"} =>
                \A i \in 1..Len(successful_videos) :
                    successful_videos[i].video_index = k =>
                        NameOf(successful_videos[i]) \notin Range(session_videos)
    /\ Unretrieved # {} /\ pc \in {"report", "manifest", "latest", "done"} =>
          total_video_index = JobCount(num_videos_per_image)
    /\ Unretrieved # {} /\ pc = "generate" =>
          /\ total_video_index < JobCount(num_videos_per_image)
          /\ prompt_idx \in 1..Len(PromptsToUse(img_idx, num_videos_per_image))

C9_Witness ==
    /\ pc = "done"
    /\ 1 \in Unretrieved
    /\ Retrieved(2)
    /\ session_videos # <<>>
    /\ \E i \in 1..Len(successful_videos) :
          successful_videos[i].video_index = 1 /\ successful_videos[i].s3_location = GoodLocation

\* C10: no failure of a job raises out of generate_ads or keeps the later
\* jobs from being submitted; the report is written and returned and holds
\* every job, the failed ones included.
C10_BatchNeverRaises ==
    /\ pc # "raised"
    /\ pc = "generate" =>
          /\ total_video_index < JobCount(num_videos_per_image)
          /\ prompt_idx \in 1..Len(PromptsToUse(img_idx, num_videos_per_image))
    /\ pc \in {"report", "manifest", "latest", "done"} =>
          /\ total_video_index = JobCount(num_videos_per_image)
          /\ {r.video_index : r \in RecordedJobs} = 1..JobCount(num_videos_per_image)
    /\ ReportWritten =>
          /\ report = PersistedReport
          /\ report.total_attempted = JobCount(num_videos_per_image)
          /\ report.failed_videos = failed_videos
          /\ report.successful_videos = successful_videos
          /\ Len(failed_videos) + Len(successful_videos) = JobCount(num_videos_per_image)
          /\ \A i \in 1..Len(report.failed_videos) :
                ~report.failed_videos[i].success /\ report.failed_videos[i].error # <<>>

C10_Witness ==
    /\ pc = "done"
    /\ Len(report.failed_videos) = 2
    /\ report.failed_videos[1].error[1] = "Error generating video: "
    /\ report.failed_videos[2].error = TimedOutError
    /\ \E i \in 1..Len(report.successful_videos) :
          report.successful_videos[i].video_index > report.failed_videos[2].video_index


\* the call of merge_videos_with_transitions and what it did
TCall == tcall[1]
TDone == tresult # <<>> /\ tresult[1].filters # <<>>
\* the probed duration of segment i, when the probe gives one
ProbedDuration(i) == get_video_info(TCall.probes[i])[1].duration
Max(a, b) == IF a >= b THEN a ELSE b

\* C11 (as stated): the fade-out of a non-last segment with probed duration D
\* starts at max(0, D - T) for transition duration T: at 0 when D = T, and
\* never at a negative time, D < T included.
C11_FadeOutStartClamped ==
    TDone =>
        \A i \in 1..Len(tresult[1].filters) :
            tresult[1].filters[i].fade_out # <<>> =>
                /\ tresult[1].filters[i].fade_out[1].st =
                      Max(0, ProbedDuration(i) - TCall.transition_duration)
                /\ tresult[1].filters[i].fade_out[1].st >= 0


\* the last run of merge_videos.py: its command line, the environment's
\* answers and what it did
MArgs == merge[1].args
MEnv == merge[1].env
MOut == merge[1].out
\* the run went into merge_generated_videos with session-only scope
SessionOnlyRun ==
    /\ merge # NoMerge
    /\ check_ffmpeg(MEnv.version)
    /\ MArgs.videos = <<>>
    /\ ~MArgs.all_videos
    /\ FolderExists
\* the existing files named in session_videos_<t>.json, when it can be read
ManifestYield(t) ==
    IF sessionFiles[t] # <<>> /\ MEnv.manifest_readable
    THEN Range(sessionFiles[t][1].session_videos) \cap videoFiles
    ELSE {}
\* the files named video_<t>_*.mp4
PatternYield(t) == {f \in videoFiles : f.timestamp = t}

C13_EverySuccessfulMergeWritesReport ==
    merge # NoMerge /\ MOut.returned =>
        /\ MOut.merge_report # <<>>
        /\ MOut.merge_report[1].source_videos = MOut.video_files
        /\ MOut.strategy \in {"manifest", "pattern"} =>
              /\ MOut.merge_report[1].merge_type = <<"session", MOut.session_timestamp[1]>>
              /\ MOut.merge_report[1].session_timestamp = MOut.session_timestamp
        /\ MOut.strategy \in {"scan", "explicit"} =>
              /\ MOut.merge_report[1].merge_type = <<"all available">>
              /\ MOut.merge_report[1].session_timestamp = <<>>


\* the place of a step in the order Selection, Analysis, Generation, Merge
StepRank(name) ==
    CASE name = "Selection" -> 1 [] name = "Analysis" -> 2 [] name = "Generation" -> 3
      [] name = "Merge" -> 4
\* the steps the flags schedule, computed from the flags alone
Scheduled(p) ==
    {s \in {"Selection", "Analysis", "Generation", "Merge"} :
        CASE s = "Selection" -> ~p.skip_selection
          [] s = "Analysis" -> ~p.skip_analysis
          [] s = "Generation" -> p.s3_bucket
          [] s = "Merge" -> p.s3_bucket /\ (p.merge \/ p.merge_all)}

\* C14: the coordinator starts the scheduled steps in the order Selection,
\* Analysis, Generation, Merge, each after the one before exited 0; after
\* the first step that exits non-zero it starts no step and exits non-zero;
\* it exits 0 only if every scheduled step was run and exited 0.
C14_StepsInOrderStopAtFirstFailure ==
    /\ \A i, j \in 1..Len(launched) : i < j => StepRank(launched[i]) < StepRank(launched[j])
    /\ Range(launched) \subseteq (IF plan = <<>> THEN {} ELSE Scheduled(plan[1]))
    /\ \A i \in 1..Len(launched) :
          \A s \in Scheduled(plan[1]) : StepRank(s) < StepRank(launched[i]) =>
              \E j \in 1..(i - 1) : launched[j] = s /\ codes[j] = 0
    /\ Len(codes) <= Len(launched)
    /\ \A i \in 1..Len(codes) :
          codes[i] # 0 =>
              /\ i = Len(launched)
              /\ ppc = "exited"
              /\ coord_exit # <<>> /\ coord_exit # <<0>>
    /\ coord_exit = <<0>> =>
          /\ Range(launched) = Scheduled(plan[1])
          /\ Len(codes) = Len(launched)
          /\ \A i \in 1..Len(codes) : codes[i] = 0
    /\ ppc = "exited" <=> coord_exit # <<>>

C14_Witness ==
    /\ coord_exit = <<1>>
    /\ launched = <<"Selection", "Analysis", "Generation">>
    /\ codes = <<0, 0, 2>>
    /\ plan[1].merge


\* C15 (as stated): a run of ads_generation.py without a storage bucket or
\* without product_analysis_prompts.json submits and polls nothing, writes
\* no report and no manifest, and exits with a non-zero code.
C15_ConfigErrorIsFatal ==
    pc = "aborted" =>
        /\ total_video_index = 0
        /\ downloads = <<>>
        /\ writes = <<>>
        /\ latestFile = latestAtStart
        /\ exit_code # <<>>
        /\ exit_code # <<0>>

\* C16: a run that gets to the batch exits 0 whatever the outcomes of its
\* jobs, all of them failing or timing out included; it has no exit code
\* while the batch runs, and a non-zero exit never comes from a job.
C16_BatchExitsZero ==
    /\ pc = "done" => exit_code = <<0>>
    /\ pc \in {"generate", "handle", "report", "manifest", "latest"} => exit_code = <<>>
    /\ pc # "raised"
    /\ exit_code \notin {<<>>, <<0>>} => pc = "aborted" /\ total_video_index = 0

C16_Witness ==
    /\ pc = "done"
    /\ exit_code = <<0>>
    /\ successful_videos = <<>>
    /\ Len(failed_videos) = 2
    /\ failed_videos[1].error = TimedOutError
    /\ failed_videos[2].error[1] = "Generation failed: "


\* C17 (as stated): no session writes a generation_report_<id>.json, a
\* session_videos_<id>.json or a video_<id>_*.mp4 that is already in the
\* folder, that is, that an earlier session wrote: sessions have distinct
\* ids and so distinct files.
C17_DistinctSessionsDistinctFiles ==
    [][/\ writes' = Append(writes, "report") => reportFiles[timestamp] = <<>>
       /\ writes' = Append(writes, "session") => sessionFiles[timestamp] = <<>>
       /\ (\E k \in 1..MaxJobs : downloads' = Append(downloads, <<k, TRUE>>)) =>
             videoFiles' # videoFiles]_vars

\* the video_index values of a list of results
Indexes(videos) == {videos[i].video_index : i \in 1..Len(videos)}
\* every job 1..n is once in exactly one of the two lists
EachOnce(succeeded, failed, n) ==
    /\ Len(succeeded) + Len(failed) = n
    /\ Indexes(succeeded) \cup Indexes(failed) = 1..n
    /\ Cardinality(Indexes(succeeded)) = Len(succeeded)
    /\ Cardinality(Indexes(failed)) = Len(failed)
    /\ Indexes(succeeded) \cap Indexes(failed) = {}
    /\ \A i \in 1..Len(succeeded) : succeeded[i].success
    /\ \A i \in 1..Len(failed) : ~failed[i].success

\* C18: every attempted job is once in exactly one of successful_videos and
\* failed_videos, after each pass of the job loop and in the persisted
\* report, where total_attempted = successful_count + failed_count =
\* len(successful_videos) + len(failed_videos).
C18_EveryJobRecordedOnce ==
    /\ pc \in {"generate", "report", "manifest", "latest", "done"} =>
          EachOnce(successful_videos, failed_videos, total_video_index)
    /\ ReportWritten =>
          /\ EachOnce(PersistedReport.successful_videos, PersistedReport.failed_videos,
                      PersistedReport.total_attempted)
          /\ PersistedReport.total_attempted =
                PersistedReport.successful_count + PersistedReport.failed_count
          /\ PersistedReport.successful_count = Len(PersistedReport.successful_videos)
          /\ PersistedReport.failed_count = Len(PersistedReport.failed_videos)
          /\ PersistedReport.total_attempted = JobCount(num_videos_per_image)

C18_Witness ==
    /\ pc = "done"
    /\ PersistedReport.total_attempted = 6
    /\ PersistedReport.failed_count = 1
    /\ PersistedReport.failed_videos[1].error = TimedOutError
    /\ 1 \in Unretrieved

\* the jobs submitted whose outcome is not recorded yet
Pending == total_video_index - (Len(successful_videos) + Len(failed_videos))

\* C19: in a session at most one job is submitted and not yet recorded; a
\* job is submitted only when every earlier job has its outcome recorded
\* and, if it succeeded, its retrieval has returned.
C19_OneJobAtATime ==
    /\ [](/\ Pending \in {0, 1}
          /\ Pending = 1 <=> pc = "handle"
          /\ Len(downloads) = Len(successful_videos)
          /\ \A i \in 1..Len(successful_videos) :
                DownloadCalls(successful_videos[i].video_index) = 1)
    /\ [][total_video_index' # total_video_index /\ total_video_index' # 0 =>
             /\ total_video_index' = total_video_index + 1
             /\ Pending = 0
             /\ Len(downloads) = Len(successful_videos)
             /\ result'.video_index = total_video_index']_vars

C19_Witness ==
    /\ pc = "handle"
    /\ total_video_index = 3
    /\ Len(downloads) = 1
    /\ Len(failed_videos) = 1
    /\ result.success

\* C20 (as stated): whenever no generate_ads call is running, each name in
\* a session_videos_<id>.json is the file name of the local_filename of an
\* entry of successful_videos in generation_report_<id>.json, re-runs with
\* the same timestamp included.
C20_ManifestNamesInReport ==
    pc \in {"idle", "done", "aborted"} =>
        \A t \in Timestamps :
            sessionFiles[t] # <<>> =>
                /\ reportFiles[t] # <<>>
                /\ \A name \in Range(sessionFiles[t][1].session_videos) :
                      \E i \in 1..Len(reportFiles[t][1].successful_videos) :
                          LET video == reportFiles[t][1].successful_videos[i]
                          IN /\ video.local_filename # <<>>
                             /\ PathName(video.local_filename[1]) = name


\* ------------------------------------------------------- the fades of the transition path
\* the segments the call of merge_videos_with_transitions probes: the first
\* one for the resolution and, when that gives one, every one but the last
\* for its fade-out
Probed ==
    {1} \cup (IF get_video_info(TCall.probes[1]) # None
              THEN 1..(Len(TCall.video_files) - 1)
              ELSE {})

\* C21 (as stated): with n segments, every segment but the first has a
\* fade-in of the configured duration and every segment but the last a
\* fade-out of the configured duration, whatever the probes of the segments
\* answer; the first has no fade-in, the last no fade-out, so with n = 1
\* there is no fade.
C21_FadesOnAllButFirstAndLast ==
    TDone =>
        LET n == Len(tresult[1].filters)
            filter(i) == tresult[1].filters[i]
        IN \A i \in 1..n :
              /\ IF i > 1
                 THEN filter(i).fade_in = <<Fade(0, TCall.transition_duration)>>
                 ELSE filter(i).fade_in = <<>>
              /\ IF i < n
                 THEN /\ filter(i).fade_out # <<>>
                      /\ filter(i).fade_out[1].d = TCall.transition_duration
                 ELSE filter(i).fade_out = <<>>

\* C22 (as stated): when the probe of a segment fails on the transition
\* path, or ffmpeg does not exit with 0, merge_videos_with_transitions
\* returns failure.
C22_ProbeOrTranscodeFailureFailsMerge ==
    tresult # <<>> =>
        ((\/ \E i \in Probed : get_video_info(TCall.probes[i]) = None
          \/ TCall.ffmpeg # "exit 0")
            => ~tresult[1].returned)

\* the metadata of a probe cannot be extracted: the tool cannot be run or
\* exits non-zero, its output does not parse, there is no video stream, or
\* the duration of the video stream is not a number
IsVideo(stream) == stream.codec_type = <<"video">>
Unextractable(probe) ==
    \/ probe.raises
    \/ probe.returncode # 0
    \/ ~probe.parses
    \/ SelectSeq(probe.streams, IsVideo) = <<>>
    \/ LET video == Head(SelectSeq(probe.streams, IsVideo))
       IN video.duration # <<>> /\ ~video.duration[1].numeric

\* C23 (as stated): get_video_info returns None whenever the metadata cannot
\* be extracted, and merge_videos_with_transitions does not do for a segment
\* probed with duration 0 what it does when the probe of that segment is
\* absent.
C23_AbsentDistinctFromZeroDuration ==
    tresult # <<>> =>
        \A i \in Probed :
            /\ Unextractable(TCall.probes[i]) => get_video_info(TCall.probes[i]) = None
            /\ get_video_info(TCall.probes[i]) # None /\ ProbedDuration(i) = 0 =>
                  tresult[1] # merge_videos_with_transitions(
                                   TCall.video_files,
                                   [TCall.probes EXCEPT ![i] = ProbeExitsNonZero],
                                   TCall.transition_duration, TCall.ffmpeg)


\* ------------------------------------------------------- one resolution strategy per run
\* the run got past check_ffmpeg
MergeRan == merge # NoMerge /\ check_ffmpeg(MEnv.version)

\* C24: the segments of a run of merge_videos.py are what exactly one
\* strategy yields: the existing files of the --videos list in the order
\* given, or the existing files the session manifest names, or the files
\* matching video_<id>_*.mp4, or all video_*.mp4 files; with --videos no
\* other strategy is used, and when every listed file is missing nothing is
\* merged and the run exits with 1.
C24_OneResolutionStrategy ==
    MergeRan =>
        LET id == MOut.session_timestamp
            files == Range(MOut.video_files)
            Exists(video_path) == video_path \in videoFiles
        IN /\ MArgs.videos # <<>> <=> MOut.strategy = "explicit"
           /\ MOut.strategy = "explicit" =>
                 /\ MOut.video_files = SelectSeq(MArgs.videos, Exists)
                 /\ MOut.merge_report = <<>>
                 /\ MOut.video_files = <<>> => ~MOut.merged /\ MOut.exit_code = 1
           /\ MOut.strategy = "manifest" => files = ManifestYield(id[1]) /\ files # {}
           /\ MOut.strategy = "pattern" =>
                 files = PatternYield(id[1]) /\ files # {} /\ ManifestYield(id[1]) = {}
           /\ MOut.strategy = "scan" => files = videoFiles
           /\ MOut.strategy = "none" => files = {} /\ ~FolderExists
           /\ MOut.strategy \in {"explicit", "manifest", "pattern", "scan", "none"}

\* a session manifest that names fewer files than the pattern matches was
\* merged: the session was run twice with the same timestamp
C24_Witness ==
    /\ MergeRan
    /\ MOut.strategy = "manifest"
    /\ MOut.merged
    /\ ManifestYield(MOut.session_timestamp[1]) # PatternYield(MOut.session_timestamp[1])


\* ------------------------------------------------------- the failure reason and the outcome
\* the last poll of the call was answered with status Failed
PolledFailed == attempt > 0 /\ ~lastResp.raises /\ lastResp.status = <<"Failed">>
\* the failure reason the call read from that answer
ErrorMsg ==
    IF lastResp.failureReason = <<>> THEN "No failureReason provided"
    ELSE lastResp.failureReason[1]
\* a returned dict without its error text
WithoutError(dict) == [dict EXCEPT !.error = <<>>]

\* C25: after a poll answered with status Failed generate_video_async has
\* returned (no further poll is made), with success False and the error
\* 'Generation failed: <reason>'; apart from the reason in that text the
\* dict is the one returned for a reason that falls into no diagnostic
\* category, whichever tip the reason makes the call print.
C25_FailureOutcomeIndependentOfCategory ==
    PolledFailed =>
        /\ apc = "returned"
        /\ ~aresult.success
        /\ aresult.error = <<"Generation failed: ", ErrorMsg>>
        /\ WithoutError(aresult) =
              WithoutError(FailedResult(PollResp(<<"Failed">>, <<>>, <<"Internal error">>), 1))
        /\ \A resp \in PollResponses : ~ENABLED APoll(resp)
        /\ ~ENABLED ATimeout

\* a failure whose reason falls into a diagnostic category was returned
\* after earlier polls found the job in progress
C25_Witness ==
    /\ PolledFailed
    /\ Tip(ErrorMsg) # <<>>
    /\ attempt > 1
    /\ apc = "returned"


\* ------------------------------------------------------- the files merge_videos_concat leaves
\* the call of merge_videos_concat has returned
ConcatReturned == tresult # <<>> /\ tresult[1].at = "returned"

\* C26: when merge_videos_concat has returned, after ffmpeg exited with 0,
\* exited non-zero or could not be run, concat_list.txt does not exist, every
\* other file found in the folder is still there, and an output file that
\* ffmpeg wrote, in part or whole, is there too; the value returned is True
\* exactly when ffmpeg exited with 0.
C26_ConcatListRemovedNothingElse ==
    ConcatReturned =>
        LET call == tcall[1]
            st == tresult[1]
        IN /\ ConcatList \notin st.files
           /\ call.before \ {ConcatList} \subseteq st.files
           /\ st.files \ call.before \subseteq {OutputPath}
           /\ (call.ffmpeg = "exit 0" \/ (call.ffmpeg = "exit 1" /\ call.partial)) =>
                 OutputPath \in st.files
           /\ st.listed = call.video_files
           /\ st.returned = <<call.ffmpeg = "exit 0">>
           /\ st.returned = <<merge_videos_concat(call.video_files, call.ffmpeg).returned>>

\* ffmpeg exited non-zero and left part of an output in a folder that held
\* no output before
C26_Witness ==
    /\ ConcatReturned
    /\ tcall[1].ffmpeg = "exit 1"
    /\ tcall[1].partial
    /\ OutputPath \notin tcall[1].before
    /\ Notes \in tcall[1].before
    /\ tresult[1].returned = <<FALSE>>


\* ------------------------------------------------------- images without prompts
\* the run of product_analysis.py and what it did
ACall == tcall[1]
ARan == tresult[1]
\* the analysis of the image gave no video_prompts: it failed, or no
\* structured data with that key could be read from the answer
NoPrompts(selected_img) == selected_img.answer.video_prompts = <<>>
\* the selected images that have a file, in order
Analyzed == LET Exists(selected_img) == selected_img.exists IN SelectSeq(ACall.selected, Exists)
\* the jobs of the session recorded for image k
JobsOfImage(k) ==
    {r \in Range(successful_videos) \cup Range(failed_videos) : r.image_index = k}

\* C27: when the selection file lists the selected images, product_analysis.py
\* writes product_analysis_prompts.json and exits with 0 whatever the
\* analyses of the images gave; the file has one entry per analyzed image,
\* without video_prompts exactly for the images whose analysis gave none;
\* and the generate_ads run on that file records no job for such an image
\* and min(number of prompts, num_videos_per_image) jobs for every other one.
C27_ImageWithoutPromptsIsSkipped ==
    tresult # <<>> /\ ACall.has_selected_images =>
        /\ ARan.exit_code = 0
        /\ ARan.written # <<>>
        /\ LET entries == ARan.written[1].per_image_analysis
           IN /\ Len(entries) = Len(Analyzed)
              /\ \A k \in 1..Len(entries) :
                    /\ entries[k].video_prompts = Analyzed[k].answer.video_prompts
                    /\ Analyzed[k].answer.kind # "json" => entries[k].error # <<>>
              /\ analysis = PerImagePrompts(entries)
              /\ pc = "done" =>
                    \A k \in 1..Len(entries) :
                        Cardinality(JobsOfImage(k)) =
                            IF NoPrompts(Analyzed[k]) THEN 0
                            ELSE Min(Len(Analyzed[k].answer.video_prompts[1]),
                                     num_videos_per_image)

\* the analysis of the first image raised, the second image has prompts, and
\* the session that followed has ended with jobs of the second image only
C27_Witness ==
    /\ tresult # <<>>
    /\ ACall.has_selected_images
    /\ Len(Analyzed) = 2
    /\ Analyzed[1].answer.kind = "no content"
    /\ ~NoPrompts(Analyzed[2])
    /\ ARan.written[1].failed_analyses = 1
    /\ pc = "done"
    /\ JobsOfImage(1) = {}
    /\ JobsOfImage(2) # {}


\* ------------------------------------------------------- the jobs of a session
\* the loops of generate_ads are over
LoopsOver == pc \in {"report", "manifest", "latest", "done"}
\* the results recorded by the session so far
Recorded == Range(successful_videos) \cup Range(failed_videos)
\* the image and prompt ordinals a session has to submit: for the image at
\* position k of per_image_analysis the prompts 1..min(number of its
\* prompts, num_videos_per_image)
ExpectedJobs ==
    {<<k, p>> \in (1..Len(analysis)) \X (1..num_videos_per_image) : p <= Len(analysis[k])}

\* C28: the jobs generate_ads submits are one per image position k and
\* prompt ordinal 1..min(prompts of image k, num_videos_per_image), where k
\* counts the images skipped for having no prompts; their number is the
\* sum of these minima, and a retrieved video is named after the ordinals
\* of its job.
C28_JobsPerImageAndPrompt ==
    /\ pc \in {"generate", "handle"} \cup {"report", "manifest", "latest", "done"} =>
          /\ {<<r.image_index, r.prompt_index>> : r \in Recorded} \subseteq ExpectedJobs
          /\ Cardinality(Recorded) = Len(successful_videos) + Len(failed_videos)
          /\ total_video_index =
                Cardinality(Recorded) + (IF pc = "handle" THEN 1 ELSE 0)
          /\ \A r \in Recorded :
                r.local_filename # <<>> =>
                    /\ PathName(r.local_filename[1]).img = Pad2(r.image_index)
                    /\ PathName(r.local_filename[1]).prompt = Pad2(r.prompt_index)
    /\ LoopsOver =>
          /\ {<<r.image_index, r.prompt_index>> : r \in Recorded} = ExpectedJobs
          /\ total_video_index = Cardinality(ExpectedJobs)

\* a session over an image without prompts followed by one with two, of
\* which one is used, has ended
C28_Witness ==
    /\ pc = "done"
    /\ analysis = <<<<>>, <<HeroShowcase, LifestyleFocus>>>>
    /\ num_videos_per_image = 1
    /\ {<<r.image_index, r.prompt_index>> : r \in Recorded} = {<<2, 1>>}
    /\ total_video_index = 1


\* ------------------------------------------------------- the order of the merged segments
\* the run went into merge_generated_videos and merged the segments it found
FolderMerge == MergeRan /\ MArgs.videos = <<>> /\ MOut.merged
\* the name comes before the other one as a string
NameBefore(a, b) == CodesLess(FileCodes(a), FileCodes(b))
\* the session timestamp and the ordinals of a name, as numbers
OrdinalKey(name) == <<name.timestamp, DigitsValue(name.img), DigitsValue(name.prompt)>>
KeyBefore(a, b) ==
    \/ a[1] < b[1]
    \/ a[1] = b[1] /\ a[2] < b[2]
    \/ a[1] = b[1] /\ a[2] = b[2] /\ a[3] < b[3]

LatestSessionRun == SessionOnlyRun /\ MArgs.timestamp = <<>>
\* the timestamps of the sessions that have a session_videos_<id>.json
WithManifest == {t \in Timestamps : sessionFiles[t] # <<>>}
\* the session that last produced a retrieved video: every such session
\* writes latest_session_videos.json, and no other one does
LastProducing == latestFile[1].timestamp

\* C30 (as stated): a session-only run without --timestamp merges the
\* session named by latest_session_videos.json when it is readable, else the
\* one with the greatest session_videos_<id>.json name; so it merges the most
\* recent session that produced a retrieved video.
C30_MergesMostRecentProducingSession ==
    LatestSessionRun /\ latestFile # <<>> =>
        /\ MOut.session_timestamp = <<LastProducing>>
        /\ \A f \in Range(MOut.video_files) : f.timestamp = LastProducing

\* C30 (amended): such a run merges the videos of the session named by
\* latest_session_videos.json when that file is readable, and then it is the
\* most recent session that produced a retrieved video; when it is not
\* readable it merges the session with the greatest session_videos_<id>.json
\* name, whichever session ran last; with neither it merges all videos.
C30_MergesLatestReadableElseGreatestId ==
    LatestSessionRun =>
        LET id == MOut.session_timestamp
        IN /\ IF latestFile # <<>> /\ MEnv.latest_readable
              THEN id = <<LastProducing>>
              ELSE IF WithManifest # {}
              THEN /\ id # <<>>
                   /\ id[1] \in WithManifest
                   /\ \A t \in WithManifest : t <= id[1]
              ELSE id = <<>>
           /\ id # <<>> =>
                 /\ MOut.strategy \in {"manifest", "pattern"}
                 /\ MOut.video_files # <<>>
                 /\ \A f \in Range(MOut.video_files) : f.timestamp = id[1]
           /\ id = <<>> => MOut.strategy = "scan"

\* the latest pointer could not be read and the session with the greatest
\* id, which is not the one that ran last, was merged
C30_Witness ==
    /\ LatestSessionRun
    /\ latestFile # <<>>
    /\ ~MEnv.latest_readable
    /\ MOut.merged
    /\ MOut.session_timestamp # <<LastProducing>>
    /\ \A f \in Range(MOut.video_files) : f.timestamp = MOut.session_timestamp[1]

====
